---- MODULE Spec2Model ----
(***************************************************************************)
(* A model of the kinematic character controller of                       *)
(* libraries/physics/src/CharacterController.cpp.                          *)
(*                                                                         *)
(* Numbers.  The code computes in floats; the model computes in integers:  *)
(* lengths in millimetres, speeds in mm/s, accelerations in mm/s^2, time   *)
(* steps in milliseconds, the wall clock in microseconds.  A hit fraction  *)
(* (a float in [0,1]) is an integer in 0..FractionScale.  A contact normal *)
(* is a unit vector scaled by NormalScale (the normals used are exact:     *)
(* axis vectors and 3-4-5 vectors).  The world is two-dimensional: x is    *)
(* horizontal, y is vertical; the character's up axis is the local up axis *)
(* turned by the avatar's orientation, a number of quarter turns.          *)
(***************************************************************************)
EXTENDS Integers, Sequences, FiniteSets, TLC

VARIABLES
    cc,        \* the CharacterController object: its fields
    dw,        \* the dynamics world: what the controller has enrolled in it
    avatar,    \* the AvatarData the controller reads and writes
    now,       \* usecTimestampNow(), microseconds
    pc,        \* where the simulation owner is in its frame
    frame,     \* locals of the frame in progress: dt, callbacks of the phases
    lastCall,  \* the call of the controller's interface made last
    jumpBegan  \* history: the clock when preSimulation last began a jump (0: never)

vars == <<cc, dw, avatar, now, pc, frame, lastCall, jumpBegan>>

-----------------------------------------------------------------------------
(* Bounds of the model *)

\* the frames of a run: the clock stops after MaxClockSteps steps of ClockStepUsecs
MaxClockSteps == 3
\* hit fractions offered by the collision world: k/FractionSteps, k in 0..FractionSteps
FractionSteps == 2

-----------------------------------------------------------------------------
(* Program constants, in the model's units *)

DEFAULT_GRAVITY == 5000
TERMINAL_VELOCITY == 55000
JUMP_SPEED == 5000
ADDED_MARGIN == 20
\* btCapsuleShape's collision margin (Bullet's default for a new convex shape)
SHAPE_MARGIN == 40
MIN_HALF_HEIGHT == 100
\* cos(45 degrees) * 1000, the value setMaxSlope(btRadians(45)) stores
MAX_SLOPE_COSINE_MILLI == 707
USECS_PER_SECOND == 1000000
JUMP_TO_HOVER_PERIOD == USECS_PER_SECOND

FractionScale == 8
NormalScale == 5

PENDING_FLAG_ADD_TO_SIMULATION == "ADD_TO_SIMULATION"
PENDING_FLAG_REMOVE_FROM_SIMULATION == "REMOVE_FROM_SIMULATION"
PENDING_FLAG_UPDATE_SHAPE == "UPDATE_SHAPE"
PENDING_FLAG_JUMP == "JUMP"

NULL == "NULL"
WORLD == "world"

-----------------------------------------------------------------------------
(* Vectors *)

Vec(x, y) == [x |-> x, y |-> y]
ZeroVec == Vec(0, 0)
VAdd(a, b) == Vec(a.x + b.x, a.y + b.y)
VSub(a, b) == Vec(a.x - b.x, a.y - b.y)
VScale(a, k) == Vec(a.x * k, a.y * k)
VDot(a, b) == a.x * b.x + a.y * b.y
VLength2(a) == VDot(a, a)
\* length2 for a vector whose square may pass the model's 32-bit integers: squares
\* past 10^9 mm^2 are reported as 10^9 (they are only compared with small numbers)
VAbs(k) == IF k < 0 THEN -k ELSE k
VLength2Capped(a) ==
    IF VAbs(a.x) > 22000 \/ VAbs(a.y) > 22000 THEN 1000000000
    ELSE VLength2(a)

\* integer division rounding toward zero, as a float product cut to the model's grid
DivT(a, b) == IF a >= 0 THEN a \div b ELSE -((-a) \div b)
VDivT(a, k) == Vec(DivT(a.x, k), DivT(a.y, k))

RECURSIVE SqrtBits(_, _, _)
SqrtBits(n, r, b) ==
    IF b = 0 THEN r
    ELSE IF (r + b) * (r + b) <= n THEN SqrtBits(n, r + b, b \div 2)
         ELSE SqrtBits(n, r, b \div 2)
\* floor of the square root of n, for 0 <= n < 2^30
ISqrt(n) == SqrtBits(n, 0, 16384)

LOCAL_UP_AXIS == Vec(0, 1)
\* quatRotate for an orientation of q quarter turns (counter-clockwise)
RECURSIVE quatRotate(_, _)
quatRotate(q, v) == IF q = 0 THEN v ELSE quatRotate(q - 1, Vec(-v.y, v.x))

-----------------------------------------------------------------------------
(* The controller after its constructor *)

\* bounding boxes (x, y, z) an avatar can have: a degenerate one (radius 0), one
\* giving radius 300 and halfHeight 600, one whose halfHeight is the minimum
BoxScales ==
    { [x |-> 0,   y |-> 0,    z |-> 0],
      [x |-> 600, y |-> 1800, z |-> 600],
      [x |-> 800, y |-> 800,  z |-> 800] }
\* corners of the bounding box, relative to the avatar's position
Corners == { Vec(0, 0), Vec(-300, 0) }

\* the avatar's orientations: upright, and turned by a quarter
Orientations == {0, 1}

NoGhost == [exists |-> FALSE, origin |-> ZeroVec, rotation |-> 0]
NoShape == [exists |-> FALSE, margin |-> 0]

\* radius = 0.5 * sqrt(0.5 * (x^2 + z^2))
capsuleRadius(scale) == ISqrt((scale.x * scale.x + scale.z * scale.z) \div 2) \div 2
\* halfHeight = max(MIN_HALF_HEIGHT, 0.5 * y - radius)
capsuleHalfHeight(scale) ==
    LET h == scale.y \div 2 - capsuleRadius(scale)
    IN  IF h < MIN_HALF_HEIGHT THEN MIN_HALF_HEIGHT ELSE h

updateShapeIfNecessary(c, av) ==
    IF PENDING_FLAG_UPDATE_SHAPE \in c.pendingFlags
    THEN LET r == capsuleRadius(c.boxScale)
             h == capsuleHalfHeight(c.boxScale)
             base == [c EXCEPT
                        !.assertFailed = c.assertFailed
                            \/ PENDING_FLAG_REMOVE_FROM_SIMULATION \in c.pendingFlags,
                        !.pendingFlags = c.pendingFlags \ {PENDING_FLAG_UPDATE_SHAPE},
                        !.ghostObject = NoGhost,
                        !.convexShape = NoShape,
                        !.radius = r,
                        !.halfHeight = h]
         IN  IF r > 0
             THEN [base EXCEPT
                        !.ghostObject = [exists |-> TRUE, origin |-> av.position,
                                         rotation |-> av.orientation],
                        !.stepUpHeight = r + h \div 4 + 100,
                        !.stepDownHeight = r,
                        !.convexShape = [exists |-> TRUE, margin |-> SHAPE_MARGIN]]
             ELSE base
    ELSE c

\* the fields as the constructor's assignments leave them, before its call of
\* updateShapeIfNecessary; a field the constructor does not assign holds zero
constructed(scale) ==
    [ enabled |-> FALSE,
      dynamicsWorld |-> NULL,
      ghostObject |-> NoGhost,
      convexShape |-> NoShape,
      addedMargin |-> ADDED_MARGIN,
      walkDirection |-> ZeroVec,
      velocityTimeInterval |-> 0,
      verticalVelocity |-> 0,
      verticalOffset |-> 0,
      gravity |-> DEFAULT_GRAVITY,
      maxFallSpeed |-> TERMINAL_VELOCITY,
      jumpSpeed |-> JUMP_SPEED,
      isOnGround |-> FALSE,
      isJumping |-> FALSE,
      isHovering |-> TRUE,
      jumpToHoverStart |-> 0,
      maxSlopeCosine |-> MAX_SLOPE_COSINE_MILLI,
      lastStepUp |-> 0,
      pendingFlags |-> {PENDING_FLAG_UPDATE_SHAPE},
      boxScale |-> scale,
      shapeLocalOffset |-> ZeroVec,
      radius |-> 0,
      halfHeight |-> 0,
      stepUpHeight |-> 0,
      stepDownHeight |-> 0,
      currentPosition |-> ZeroVec,
      targetPosition |-> ZeroVec,
      currentUp |-> LOCAL_UP_AXIS,
      touchingContact |-> FALSE,
      floorNormal |-> ZeroVec,
      lastPosition |-> ZeroVec,
      stepDt |-> 0,
      assertFailed |-> FALSE,
      \* set when a call uses the ghost object or the shape while there is none
      nullDeref |-> FALSE ]

\* the constructor with the bug of leaving the shape to the first
\* updateShapeIfNecessary call of its owner
CharacterController_lazy(scale, av) == constructed(scale)

CharacterController(scale, av) == updateShapeIfNecessary(constructed(scale), av)

-----------------------------------------------------------------------------
(* Enabling, the bounding box, enrollment in the dynamics world *)

needsAddition(c) == PENDING_FLAG_ADD_TO_SIMULATION \in c.pendingFlags
needsRemoval(c) == PENDING_FLAG_REMOVE_FROM_SIMULATION \in c.pendingFlags

\* setEnabled with the bug of not asking for the removal of an enrolled controller
\* setEnabled whose disabling leaves a request for addition pending
setEnabled_keepsGround(c, enabled) ==
    IF enabled # c.enabled
    THEN IF enabled
         THEN [c EXCEPT
                 !.pendingFlags = c.pendingFlags \cup {PENDING_FLAG_ADD_TO_SIMULATION},
                 !.isHovering = TRUE,
                 !.enabled = TRUE]
         ELSE [c EXCEPT
                 !.pendingFlags =
                     (IF c.dynamicsWorld # NULL
                      THEN c.pendingFlags \cup {PENDING_FLAG_REMOVE_FROM_SIMULATION}
                      ELSE c.pendingFlags) \ {PENDING_FLAG_ADD_TO_SIMULATION},
                 !.enabled = FALSE]
    ELSE c

setEnabled_keepsAddition(c, enabled) ==
    IF enabled # c.enabled
    THEN IF enabled
         THEN [c EXCEPT
                 !.pendingFlags = c.pendingFlags \cup {PENDING_FLAG_ADD_TO_SIMULATION},
                 !.isHovering = TRUE,
                 !.enabled = TRUE]
         ELSE [c EXCEPT
                 !.pendingFlags =
                     IF c.dynamicsWorld # NULL
                     THEN c.pendingFlags \cup {PENDING_FLAG_REMOVE_FROM_SIMULATION}
                     ELSE c.pendingFlags,
                 !.isOnGround = FALSE,
                 !.enabled = FALSE]
    ELSE c

setEnabled_noRemoval(c, enabled) ==
    IF enabled # c.enabled
    THEN IF enabled
         THEN [c EXCEPT
                 !.pendingFlags = c.pendingFlags \cup {PENDING_FLAG_ADD_TO_SIMULATION},
                 !.isHovering = TRUE,
                 !.enabled = TRUE]
         ELSE [c EXCEPT
                 !.pendingFlags = c.pendingFlags \ {PENDING_FLAG_ADD_TO_SIMULATION},
                 !.isOnGround = FALSE,
                 !.enabled = FALSE]
    ELSE c

setEnabled(c, enabled) ==
    IF enabled # c.enabled
    THEN IF enabled
         THEN [c EXCEPT
                 !.pendingFlags = c.pendingFlags \cup {PENDING_FLAG_ADD_TO_SIMULATION},
                 !.isHovering = TRUE,
                 !.enabled = TRUE]
         ELSE [c EXCEPT
                 !.pendingFlags =
                     (IF c.dynamicsWorld # NULL
                      THEN c.pendingFlags \cup {PENDING_FLAG_REMOVE_FROM_SIMULATION}
                      ELSE c.pendingFlags) \ {PENDING_FLAG_ADD_TO_SIMULATION},
                 !.isOnGround = FALSE,
                 !.enabled = FALSE]
    ELSE c

\* setLocalBoundingBox with the bug of not asking for the removal of an enrolled
\* controller whose shape is to change
setLocalBoundingBox_noRemoval(c, corner, scale) ==
    LET radius == capsuleRadius(scale)
        halfHeight == capsuleHalfHeight(scale)
        same == radius = c.radius /\ halfHeight = c.halfHeight
        flags ==
            IF same THEN c.pendingFlags
            ELSE c.pendingFlags
                 \cup {PENDING_FLAG_UPDATE_SHAPE}
                 \cup (IF c.enabled THEN {PENDING_FLAG_ADD_TO_SIMULATION} ELSE {})
    IN  [c EXCEPT
           !.boxScale = scale,
           !.pendingFlags = flags,
           !.shapeLocalOffset = VAdd(corner, Vec(scale.x \div 2, scale.y \div 2))]

\* setLocalBoundingBox comparing the box with the last box, not the capsule's
\* dimensions with the last capsule's
setLocalBoundingBox_comparesBox(c, corner, scale) ==
    LET same == scale = c.boxScale
        flags ==
            IF same THEN c.pendingFlags
            ELSE c.pendingFlags
                 \cup (IF c.dynamicsWorld # NULL
                       THEN {PENDING_FLAG_REMOVE_FROM_SIMULATION} ELSE {})
                 \cup {PENDING_FLAG_UPDATE_SHAPE}
                 \cup (IF c.enabled THEN {PENDING_FLAG_ADD_TO_SIMULATION} ELSE {})
    IN  [c EXCEPT
           !.boxScale = scale,
           !.pendingFlags = flags,
           !.shapeLocalOffset = VAdd(corner, Vec(scale.x \div 2, scale.y \div 2))]

setLocalBoundingBox(c, corner, scale) ==
    LET radius == capsuleRadius(scale)
        halfHeight == capsuleHalfHeight(scale)
        same == radius = c.radius /\ halfHeight = c.halfHeight
        flags ==
            IF same THEN c.pendingFlags
            ELSE c.pendingFlags
                 \cup (IF c.dynamicsWorld # NULL
                       THEN {PENDING_FLAG_REMOVE_FROM_SIMULATION} ELSE {})
                 \cup {PENDING_FLAG_UPDATE_SHAPE}
                 \cup (IF c.enabled THEN {PENDING_FLAG_ADD_TO_SIMULATION} ELSE {})
    IN  [c EXCEPT
           !.boxScale = scale,
           !.pendingFlags = flags,
           !.shapeLocalOffset = VAdd(corner, Vec(scale.x \div 2, scale.y \div 2))]

reset_endsHover(c) ==
    [c EXCEPT
       !.verticalVelocity = 0,
       !.verticalOffset = 0,
       !.isOnGround = FALSE,
       !.isJumping = FALSE,
       !.isHovering = FALSE,
       !.walkDirection = ZeroVec,
       !.velocityTimeInterval = 0]

reset(c) ==
    [c EXCEPT
       !.verticalVelocity = 0,
       !.verticalOffset = 0,
       !.isOnGround = FALSE,
       !.isJumping = FALSE,
       !.walkDirection = ZeroVec,
       !.velocityTimeInterval = 0]

\* setDynamicsWorld with the bug of enrolling a controller that has no ghost object
setDynamicsWorld_withoutGhost(c, world) ==
    LET left ==
            IF c.dynamicsWorld # world /\ c.dynamicsWorld # NULL
            THEN [c EXCEPT !.dynamicsWorld = NULL] ELSE c
        joined ==
            IF c.dynamicsWorld # world /\ world # NULL
            THEN reset([left EXCEPT
                          !.dynamicsWorld = world,
                          !.pendingFlags = left.pendingFlags \ {PENDING_FLAG_JUMP}])
            ELSE left
    IN  IF joined.dynamicsWorld # NULL
        THEN IF PENDING_FLAG_UPDATE_SHAPE \in joined.pendingFlags
             THEN [joined EXCEPT !.pendingFlags = joined.pendingFlags
                       \cup {PENDING_FLAG_ADD_TO_SIMULATION,
                             PENDING_FLAG_REMOVE_FROM_SIMULATION}]
             ELSE [joined EXCEPT !.pendingFlags =
                       joined.pendingFlags \ {PENDING_FLAG_ADD_TO_SIMULATION}]
        ELSE [joined EXCEPT !.pendingFlags =
                  joined.pendingFlags \ {PENDING_FLAG_REMOVE_FROM_SIMULATION}]

\* setDynamicsWorld with the bug of leaving the REMOVE bit set after the removal
setDynamicsWorld_keepsRemove(c, world) ==
    LET left ==
            IF c.dynamicsWorld # world /\ c.dynamicsWorld # NULL
            THEN [c EXCEPT !.dynamicsWorld = NULL] ELSE c
        joined ==
            IF c.dynamicsWorld # world /\ world # NULL /\ c.ghostObject.exists
            THEN reset([left EXCEPT
                          !.dynamicsWorld = world,
                          !.pendingFlags = left.pendingFlags \ {PENDING_FLAG_JUMP}])
            ELSE left
    IN  IF joined.dynamicsWorld # NULL
        THEN IF PENDING_FLAG_UPDATE_SHAPE \in joined.pendingFlags
             THEN [joined EXCEPT !.pendingFlags = joined.pendingFlags
                       \cup {PENDING_FLAG_ADD_TO_SIMULATION,
                             PENDING_FLAG_REMOVE_FROM_SIMULATION}]
             ELSE [joined EXCEPT !.pendingFlags =
                       joined.pendingFlags \ {PENDING_FLAG_ADD_TO_SIMULATION}]
        ELSE joined

setDynamicsWorld_keepsJump(c, world) ==
    LET left ==
            IF c.dynamicsWorld # world /\ c.dynamicsWorld # NULL
            THEN [c EXCEPT !.dynamicsWorld = NULL] ELSE c
        joined ==
            IF c.dynamicsWorld # world /\ world # NULL /\ c.ghostObject.exists
            THEN reset([left EXCEPT !.dynamicsWorld = world])
            ELSE left
    IN  IF joined.dynamicsWorld # NULL
        THEN IF PENDING_FLAG_UPDATE_SHAPE \in joined.pendingFlags
             THEN [joined EXCEPT !.pendingFlags = joined.pendingFlags
                       \cup {PENDING_FLAG_ADD_TO_SIMULATION,
                             PENDING_FLAG_REMOVE_FROM_SIMULATION}]
             ELSE [joined EXCEPT !.pendingFlags =
                       joined.pendingFlags \ {PENDING_FLAG_ADD_TO_SIMULATION}]
        ELSE [joined EXCEPT !.pendingFlags =
                  joined.pendingFlags \ {PENDING_FLAG_REMOVE_FROM_SIMULATION}]

setDynamicsWorld(c, world) ==
    LET left ==
            IF c.dynamicsWorld # world /\ c.dynamicsWorld # NULL
            THEN [c EXCEPT !.dynamicsWorld = NULL] ELSE c
        joined ==
            IF c.dynamicsWorld # world /\ world # NULL /\ c.ghostObject.exists
            THEN reset([left EXCEPT
                          !.dynamicsWorld = world,
                          !.pendingFlags = left.pendingFlags \ {PENDING_FLAG_JUMP}])
            ELSE left
    IN  IF joined.dynamicsWorld # NULL
        THEN IF PENDING_FLAG_UPDATE_SHAPE \in joined.pendingFlags
             THEN [joined EXCEPT !.pendingFlags = joined.pendingFlags
                       \cup {PENDING_FLAG_ADD_TO_SIMULATION,
                             PENDING_FLAG_REMOVE_FROM_SIMULATION}]
             ELSE [joined EXCEPT !.pendingFlags =
                       joined.pendingFlags \ {PENDING_FLAG_ADD_TO_SIMULATION}]
        ELSE [joined EXCEPT !.pendingFlags =
                  joined.pendingFlags \ {PENDING_FLAG_REMOVE_FROM_SIMULATION}]

\* The dynamics world, as far as the controller is concerned: whether the
\* controller's present ghost object is one of its collision objects, how often the
\* controller is among its actions (0, 1, or 2 for "more than once"), whether it
\* still holds a ghost object that the controller has deleted, and the scene: the
\* other collision objects around the character.
EmptyWorld == [ghost |-> FALSE, actions |-> 0, dangling |-> FALSE, scene |-> "air"]

\* the world after a setDynamicsWorld that adds without asking whether the
\* controller is in that world already
worldAfterSetDynamicsWorld_addsAgain(c, w, world) ==
    LET removed ==
            IF c.dynamicsWorld # world /\ c.dynamicsWorld # NULL /\ c.ghostObject.exists
            THEN [w EXCEPT !.ghost = FALSE,
                           !.actions = IF w.actions > 0 THEN w.actions - 1 ELSE 0]
            ELSE w
    IN  IF world # NULL /\ c.ghostObject.exists
        THEN [removed EXCEPT !.ghost = TRUE,
                             !.actions = IF removed.actions = 0 THEN 1 ELSE 2]
        ELSE removed

\* what setDynamicsWorld's removeCollisionObject/removeAction and
\* addCollisionObject/addAction calls leave in the dynamics world
worldAfterSetDynamicsWorld(c, w, world) ==
    LET removed ==
            IF c.dynamicsWorld # world /\ c.dynamicsWorld # NULL /\ c.ghostObject.exists
            THEN [w EXCEPT !.ghost = FALSE,
                           !.actions = IF w.actions > 0 THEN w.actions - 1 ELSE 0]
            ELSE w
    IN  IF c.dynamicsWorld # world /\ world # NULL /\ c.ghostObject.exists
        THEN [removed EXCEPT !.ghost = TRUE,
                             !.actions = IF removed.actions = 0 THEN 1 ELSE 2]
        ELSE removed

\* deleting the ghost object the world still holds leaves the world a dangling pointer
worldAfterUpdateShape(c, w) ==
    IF PENDING_FLAG_UPDATE_SHAPE \in c.pendingFlags /\ w.ghost
    THEN [w EXCEPT !.ghost = FALSE, !.dangling = TRUE]
    ELSE w

-----------------------------------------------------------------------------
(* Jumping, speeds, and the calls around the simulation step *)

canJump(c) == c.isOnGround
onGround(c) == c.isOnGround

setMaxFallSpeed(c, speed) == [c EXCEPT !.maxFallSpeed = speed]
setJumpSpeed(c, jumpSpeed) == [c EXCEPT !.jumpSpeed = jumpSpeed]
setGravity(c, gravity) == [c EXCEPT !.gravity = gravity]

\* jump() with the comparison of the elapsed time turned around
jump_hoverAfterPeriod(c, t) ==
    LET flagged == [c EXCEPT !.pendingFlags = c.pendingFlags \cup {PENDING_FLAG_JUMP}]
    IN  IF ~c.isHovering
        THEN IF ~c.isJumping
             THEN [flagged EXCEPT !.jumpToHoverStart = t]
             ELSE IF t - c.jumpToHoverStart >= JUMP_TO_HOVER_PERIOD
                  THEN [flagged EXCEPT !.isHovering = TRUE]
                  ELSE flagged
        ELSE flagged

\* jump() at time t = usecTimestampNow().  The clock never runs backwards, so the
\* unsigned difference now - _jumpToHoverStart is the plain difference.
jump(c, t) ==
    LET flagged == [c EXCEPT !.pendingFlags = c.pendingFlags \cup {PENDING_FLAG_JUMP}]
    IN  IF ~c.isHovering
        THEN IF ~c.isJumping
             THEN [flagged EXCEPT !.jumpToHoverStart = t]
             ELSE IF t - c.jumpToHoverStart < JUMP_TO_HOVER_PERIOD
                  THEN [flagged EXCEPT !.isHovering = TRUE]
                  ELSE flagged
        ELSE flagged

setVelocityForTimeInterval(c, velocity, timeInterval) ==
    [c EXCEPT !.walkDirection = velocity,
              !.velocityTimeInterval = c.velocityTimeInterval + timeInterval]

\* whether preSimulation begins a jump (lines 876-883)
jumpHonoured(c) ==
    /\ c.enabled /\ c.dynamicsWorld # NULL
    /\ PENDING_FLAG_JUMP \in c.pendingFlags
    /\ canJump(c)

\* preSimulation with the bug of running for a disabled controller that is still
\* enrolled
preSimulation_whenDisabled(c, av, timeStep) ==
    IF c.dynamicsWorld # NULL
    THEN LET position == VAdd(av.position, quatRotate(av.orientation, c.shapeLocalOffset))
             moved == setVelocityForTimeInterval(
                        [c EXCEPT
                           !.currentUp = quatRotate(av.orientation, LOCAL_UP_AXIS),
                           !.nullDeref = c.nullDeref \/ ~c.ghostObject.exists,
                           !.ghostObject = IF c.ghostObject.exists
                                           THEN [exists |-> TRUE, origin |-> position,
                                                 rotation |-> av.orientation]
                                           ELSE c.ghostObject],
                        av.velocity, timeStep)
             jumped ==
                IF PENDING_FLAG_JUMP \in moved.pendingFlags
                THEN IF canJump(moved)
                     THEN [moved EXCEPT
                             !.pendingFlags = moved.pendingFlags \ {PENDING_FLAG_JUMP},
                             !.verticalVelocity = moved.jumpSpeed,
                             !.isJumping = TRUE]
                     ELSE [moved EXCEPT
                             !.pendingFlags = moved.pendingFlags \ {PENDING_FLAG_JUMP}]
                ELSE moved
         IN  [jumped EXCEPT !.lastPosition = position, !.stepDt = 0]
    ELSE c

\* preSimulation with the bug of jumping whether or not the character can jump
preSimulation_jumpInAir(c, av, timeStep) ==
    IF c.enabled /\ c.dynamicsWorld # NULL
    THEN LET position == VAdd(av.position, quatRotate(av.orientation, c.shapeLocalOffset))
             moved == setVelocityForTimeInterval(
                        [c EXCEPT
                           !.currentUp = quatRotate(av.orientation, LOCAL_UP_AXIS),
                           !.nullDeref = c.nullDeref \/ ~c.ghostObject.exists,
                           !.ghostObject = IF c.ghostObject.exists
                                           THEN [exists |-> TRUE, origin |-> position,
                                                 rotation |-> av.orientation]
                                           ELSE c.ghostObject],
                        av.velocity, timeStep)
             jumped ==
                IF PENDING_FLAG_JUMP \in moved.pendingFlags
                THEN [moved EXCEPT
                        !.pendingFlags = moved.pendingFlags \ {PENDING_FLAG_JUMP},
                        !.verticalVelocity = moved.jumpSpeed,
                        !.isJumping = TRUE]
                ELSE moved
         IN  [jumped EXCEPT !.lastPosition = position, !.stepDt = 0]
    ELSE c

preSimulation(c, av, timeStep) ==
    IF c.enabled /\ c.dynamicsWorld # NULL
    THEN LET position == VAdd(av.position, quatRotate(av.orientation, c.shapeLocalOffset))
             moved == setVelocityForTimeInterval(
                        [c EXCEPT
                           !.currentUp = quatRotate(av.orientation, LOCAL_UP_AXIS),
                           !.nullDeref = c.nullDeref \/ ~c.ghostObject.exists,
                           !.ghostObject = IF c.ghostObject.exists
                                           THEN [exists |-> TRUE, origin |-> position,
                                                 rotation |-> av.orientation]
                                           ELSE c.ghostObject],
                        av.velocity, timeStep)
             jumped ==
                IF PENDING_FLAG_JUMP \in moved.pendingFlags
                THEN IF canJump(moved)
                     THEN [moved EXCEPT
                             !.pendingFlags = moved.pendingFlags \ {PENDING_FLAG_JUMP},
                             !.verticalVelocity = moved.jumpSpeed,
                             !.isJumping = TRUE]
                     ELSE [moved EXCEPT
                             !.pendingFlags = moved.pendingFlags \ {PENDING_FLAG_JUMP}]
                ELSE moved
         IN  [jumped EXCEPT !.lastPosition = position, !.stepDt = 0]
    ELSE c

\* the length of v; a long vector is measured on a coarser grid, so that the
\* square stays a machine integer
VLength(v) ==
    LET k == 1 + (VAbs(v.x) + VAbs(v.y)) \div 20000
    IN  k * ISqrt(VLength2(VDivT(v, k)))
\* a * b / c for |a| <= c, on a coarser grid when c is large
MulDiv(a, b, c) ==
    LET k == 1 + c \div 20000
    IN  DivT(DivT(a, k) * b, DivT(c, k))

\* postSimulation without the cap on the length of the frame's step
postSimulation_unthrottled(c, av) ==
    IF c.enabled /\ c.ghostObject.exists
    THEN [av EXCEPT !.orientation = c.ghostObject.rotation,
                    !.position = VSub(c.ghostObject.origin,
                                      quatRotate(c.ghostObject.rotation,
                                                 c.shapeLocalOffset))]
    ELSE av

\* the avatar as postSimulation leaves it
postSimulation(c, av) ==
    IF c.enabled /\ c.ghostObject.exists
    THEN LET rotation == c.ghostObject.rotation
             position == c.ghostObject.origin
             finalStep == VSub(position, c.lastPosition)
             finalVelocity == VAdd(c.walkDirection, VScale(c.currentUp, c.verticalVelocity))
             speed == 2 * VLength(finalVelocity)
             \* MAX_RESOLUTION_SPEED = 5.0 m/sec
             maxStepLength == DivT((IF speed > 5000 THEN speed ELSE 5000) * c.stepDt, 1000)
             stepLength == VLength(finalStep)
             throttled ==
                IF stepLength > maxStepLength
                THEN VAdd(c.lastPosition,
                          Vec(MulDiv(finalStep.x, maxStepLength, stepLength),
                              MulDiv(finalStep.y, maxStepLength, stepLength)))
                ELSE position
         IN  [av EXCEPT !.orientation = rotation,
                        !.position = VSub(throttled, quatRotate(rotation, c.shapeLocalOffset))]
    ELSE av

-----------------------------------------------------------------------------
(* The collision world's answers and the callbacks that filter them *)

\* A candidate hit, as the collision world hands it to a callback's addSingleResult:
\* hitFraction in 0..FractionScale, hitNormal a world-space unit normal scaled by
\* NormalScale, hitPoint in world space, and the object hit: "me" (the controller's
\* own ghost object), "sensor" (an object without contact response) or "body".
Candidate(f, n, pt, obj) ==
    [hitFraction |-> f, hitNormal |-> n, hitPoint |-> pt, object |-> obj]

\* a callback that has no hit: m_closestHitFraction is 1
NoHit == [hasHit |-> FALSE, closestHitFraction |-> FractionScale,
          hitNormalWorld |-> ZeroVec, hitPointWorld |-> ZeroVec]

\* ClosestRayResultCallback / ClosestConvexResultCallback after the world has
\* reported the candidates: the accepted candidate of least fraction (one of them,
\* when several are equally close)
closestResults(accepted) ==
    IF accepted = {} THEN {NoHit}
    ELSE { [hasHit |-> TRUE, closestHitFraction |-> k.hitFraction,
            hitNormalWorld |-> k.hitNormal, hitPointWorld |-> k.hitPoint] :
           k \in {a \in accepted : \A b \in accepted : a.hitFraction <= b.hitFraction} }

\* btKinematicClosestNotMeRayResultCallback::addSingleResult
rayAccepts(k) == k.object # "me"

\* btKinematicClosestNotMeConvexResultCallback::addSingleResult; minSlopeDot is the
\* callback's _minSlopeDot times 10000
notMeConvexAccepts(k, up, minSlopeDot) ==
    /\ k.object # "me"
    /\ k.object # "sensor"
    \* _up.dot(hitNormalWorld) < _minSlopeDot, for the integer on the left
    /\ ~(VDot(up, k.hitNormal) <= (minSlopeDot * NormalScale - 1) \div 10000)

\* btVector3::angle divides by sqrt(a.length2() * b.length2()): with a zero vector
\* the quotient, and the angle, is not a number
angleIsNaN(a, b) == VLength2(a) = 0 \/ VLength2(b) = 0
\* 1000 * cos of the angle between a and b
cosAngle(a, b) == DivT(VDot(a, b) * 1000, ISqrt(VLength2(a)) * ISqrt(VLength2(b)))

\* a.angle(u) > b.angle(u): the angle is acos of the cosine, which decreases; a
\* comparison with NaN is false
angleGreater(a, b, u) ==
    IF angleIsNaN(a, u) \/ angleIsNaN(b, u) THEN FALSE
    ELSE cosAngle(a, u) < cosAngle(b, u)

\* StepDownConvexResultCallback::addSingleResult
\* the step-down callback without its limit on the height of non-walkable hits
stepDownAccepts_noAngleLimit(k, up, start, step, pushDirection, minSlopeDot, radius, halfHeight) ==
    /\ k.object # "me"
    /\ k.object # "sensor"
    /\ (VDot(up, k.hitNormal) * 1000 < minSlopeDot * NormalScale) =>
           ~(VDot(k.hitNormal, pushDirection) > 0)

stepDownAccepts(k, up, start, step, pushDirection, minSlopeDot, radius, halfHeight) ==
    /\ k.object # "me"
    /\ k.object # "sensor"
    /\ LET dotUp == VDot(up, k.hitNormal)
           fractionalStep == VDivT(VScale(step, k.hitFraction), FractionScale)
           localHit == VAdd(VSub(k.hitPoint, start), fractionalStep)
           side == Vec(radius,
                       -(halfHeight - ISqrt(VLength2(step)) + VDot(fractionalStep, up)))
           negUp == VScale(up, -1)
       IN  (dotUp * 1000 < minSlopeDot * NormalScale) =>
              /\ ~(VDot(k.hitNormal, pushDirection) > 0)
              /\ ~angleGreater(localHit, side, negUp)

-----------------------------------------------------------------------------
(* The phases of a simulation step *)

\* A contact point of a manifold of an overlapping pair of the ghost object:
\* response (both objects of the pair have contact response), body0IsGhost (the
\* manifold's body 0 is the ghost object), distance (negative: penetration),
\* normalWorldOnB scaled by NormalScale, and the contact's positions on A and B.
Contact(resp, b0, dist, n, pa, pb) ==
    [response |-> resp, body0IsGhost |-> b0, distance |-> dist,
     normalWorldOnB |-> n, positionWorldOnA |-> pa, positionWorldOnB |-> pb]

\* the contact's normal with the bug of not turning the normal of a manifold whose
\* body 0 is the other object
contactNormal_unsigned(k) == k.normalWorldOnB

\* the contact's normal, pointing from the object to the character
contactNormal(k) == IF k.body0IsGhost THEN k.normalWorldOnB
                    ELSE VScale(k.normalWorldOnB, -1)

\* collisionHeight: the height of the contact above the character's base
collisionHeight(c, currentPosition, k) ==
    LET collisionPoint == IF k.body0IsGhost THEN k.positionWorldOnB
                          ELSE k.positionWorldOnA
        characterBase == VSub(currentPosition,
                              VScale(c.currentUp, c.radius + c.halfHeight))
    IN  VDot(VSub(collisionPoint, characterBase), c.currentUp)

\* useContact with the bug of resolving the contacts below lastStepUp as well
useContact_hardFeet(c, currentPosition, k) ==
    /\ k.response
    /\ k.distance < 0

\* useContact with the bug of ignoring every contact below lastStepUp, floors
\* included
useContact_softFloor(c, currentPosition, k) ==
    /\ k.response
    /\ k.distance < 0
    /\ ~(collisionHeight(c, currentPosition, k) < c.lastStepUp)

\* whether recoverFromPenetration resolves contact k (lines 292 and 308-336)
useContact(c, currentPosition, k) ==
    /\ k.response
    /\ k.distance < 0
    /\ (VDot(contactNormal(k), c.currentUp) * 1000 < c.maxSlopeCosine * NormalScale)
          => ~(collisionHeight(c, currentPosition, k) < c.lastStepUp)

\* the loops of recoverFromPenetration over the contacts from the i-th on; acc is
\* [position (_currentPosition), maxPen, floorNormal, penetration]
RECURSIVE recoverLoop(_, _, _, _, _)
recoverLoop(c, currentPosition, contacts, i, acc) ==
    IF i > Len(contacts) THEN acc
    ELSE LET k == contacts[i]
             normal == contactNormal(k)
             absDist == IF k.distance < 0 THEN -k.distance ELSE k.distance
         IN  IF useContact(c, currentPosition, k)
             THEN recoverLoop(c, currentPosition, contacts, i + 1,
                    [position |-> VAdd(acc.position,
                                       VDivT(VScale(normal, absDist * 2), 10 * NormalScale)),
                     maxPen |-> IF k.distance < acc.maxPen THEN k.distance ELSE acc.maxPen,
                     floorNormal |-> IF k.distance < acc.maxPen THEN normal
                                     ELSE acc.floorNormal,
                     penetration |-> TRUE])
             ELSE recoverLoop(c, currentPosition, contacts, i + 1, acc)

\* recoverFromPenetration starting from the _currentPosition it finds, without
\* line 279's reading of the ghost object's origin
recoverResult_fromCurrentPosition(c, contacts) ==
    recoverLoop(c, c.currentPosition, contacts, 1,
                [position |-> c.currentPosition, maxPen |-> 0,
                 floorNormal |-> c.floorNormal, penetration |-> FALSE])

\* recoverFromPenetration's loops over all the contacts, from the ghost object's
\* origin
recoverResult(c, contacts) ==
    recoverLoop(c, c.ghostObject.origin, contacts, 1,
                [position |-> c.ghostObject.origin, maxPen |-> 0,
                 floorNormal |-> c.floorNormal, penetration |-> FALSE])

\* the controller after recoverFromPenetration; its return value is
\* recoverResult(c, contacts).penetration
recoverFromPenetration(c, contacts) ==
    LET r == recoverResult(c, contacts)
    IN  [c EXCEPT !.currentPosition = r.position,
                  !.floorNormal = r.floorNormal,
                  !.ghostObject = [c.ghostObject EXCEPT !.origin = r.position],
                  !.nullDeref = c.nullDeref \/ ~c.ghostObject.exists
                                            \/ ~c.convexShape.exists]

\* updateFallVelocity with the bug of subtracting gravity while hovering as well
updateFallVelocity_hoverFalls(c, dt) ==
    LET fallen == c.verticalVelocity - DivT(c.gravity * dt, 1000)
        v == IF fallen > c.jumpSpeed THEN c.jumpSpeed
             ELSE IF fallen < -c.maxFallSpeed THEN -c.maxFallSpeed
             ELSE fallen
    IN  [c EXCEPT !.verticalVelocity = v,
                  !.verticalOffset = DivT(v * dt, 1000)]

\* playerStep, lines 631-643: the fall velocity and the vertical offset
updateFallVelocity(c, dt) ==
    LET v == IF c.isHovering
             THEN DivT(c.verticalVelocity * (1000 - dt), 1000)
             ELSE LET fallen == c.verticalVelocity - DivT(c.gravity * dt, 1000)
                  IN  IF fallen > c.jumpSpeed THEN c.jumpSpeed
                      ELSE IF fallen < -c.maxFallSpeed THEN -c.maxFallSpeed
                      ELSE fallen
    IN  [c EXCEPT !.verticalVelocity = v,
                  !.verticalOffset = DivT(v * dt, 1000)]

MAX_SCAN_HEIGHT(c) == 20000 + c.halfHeight + c.radius
MIN_HOVER_HEIGHT(c) == 3000 + c.halfHeight + c.radius

\* scanDown with the bug of leaving the hover at any hit, however far
scanDown_clearsOnAnyHit(c, callback) ==
    IF ~callback.hasHit
    THEN [c EXCEPT !.isHovering = TRUE]
    ELSE IF c.isHovering
         THEN [c EXCEPT !.isHovering = FALSE]
         ELSE c

\* scanDown with the bug of hovering when the floor is farther than MIN_HOVER_HEIGHT
scanDown_hoverWhenFar(c, callback) ==
    IF ~callback.hasHit
    THEN [c EXCEPT !.isHovering = TRUE]
    ELSE IF callback.closestHitFraction * MAX_SCAN_HEIGHT(c)
               < MIN_HOVER_HEIGHT(c) * FractionScale
         THEN [c EXCEPT !.isHovering = FALSE]
         ELSE [c EXCEPT !.isHovering = TRUE]

\* scanDown, given its ray callback after rayTest
scanDown(c, callback) ==
    IF ~callback.hasHit
    THEN [c EXCEPT !.isHovering = TRUE]
    ELSE IF c.isHovering
            /\ callback.closestHitFraction * MAX_SCAN_HEIGHT(c)
                  < MIN_HOVER_HEIGHT(c) * FractionScale
         THEN [c EXCEPT !.isHovering = FALSE]
         ELSE c

\* btVector3::setInterpolate3(v0, v1, rt)
interpolate3(v0, v1, rt) ==
    VDivT(VAdd(VScale(v0, FractionScale - rt), VScale(v1, rt)), FractionScale)

\* stepUp with the bug of starting the step from the sweep's start, which is
\* above _currentPosition by the margins
stepUp_overshoot(c, callback) ==
    LET from == VAdd(c.currentPosition,
                     VScale(c.currentUp, c.convexShape.margin + c.addedMargin))
        target == VAdd(from, VScale(c.currentUp, c.stepUpHeight))
        t == [c EXCEPT !.targetPosition = target,
                       !.nullDeref = c.nullDeref \/ ~c.ghostObject.exists
                                                 \/ ~c.convexShape.exists]
    IN  IF callback.hasHit
        THEN [t EXCEPT !.verticalVelocity = 0,
                       !.verticalOffset = 0,
                       !.lastStepUp = c.stepUpHeight,
                       !.currentPosition = target]
        ELSE [t EXCEPT !.currentPosition = target,
                       !.lastStepUp = c.stepUpHeight]

\* stepUp with the bug of keeping the vertical velocity when the sweep has a hit
stepUp_keepsVelocity(c, callback) ==
    LET target == VAdd(c.currentPosition, VScale(c.currentUp, c.stepUpHeight))
    IN  [c EXCEPT !.targetPosition = target,
                  !.currentPosition = target,
                  !.lastStepUp = c.stepUpHeight,
                  !.nullDeref = c.nullDeref \/ ~c.ghostObject.exists
                                            \/ ~c.convexShape.exists]

\* stepUp with the bug of moving the ghost object along with _currentPosition
stepUp_movesGhost(c, callback) ==
    LET target == VAdd(c.currentPosition, VScale(c.currentUp, c.stepUpHeight))
    IN  [c EXCEPT !.targetPosition = target,
                  !.currentPosition = target,
                  !.lastStepUp = c.stepUpHeight,
                  !.verticalVelocity = IF callback.hasHit THEN 0 ELSE c.verticalVelocity,
                  !.verticalOffset = IF callback.hasHit THEN 0 ELSE c.verticalOffset,
                  !.ghostObject = [c.ghostObject EXCEPT !.origin = target]]

\* stepUp, given its sweep callback after convexSweepTest
stepUp(c, callback) ==
    LET target == VAdd(c.currentPosition, VScale(c.currentUp, c.stepUpHeight))
        t == [c EXCEPT !.targetPosition = target,
                       !.nullDeref = c.nullDeref \/ ~c.ghostObject.exists
                                                 \/ ~c.convexShape.exists]
    IN  IF callback.hasHit
        THEN IF VDot(callback.hitNormalWorld, c.currentUp) > 0
             THEN [t EXCEPT
                     !.verticalVelocity = 0,
                     !.verticalOffset = 0,
                     !.lastStepUp = DivT(c.stepUpHeight * callback.closestHitFraction,
                                         FractionScale),
                     !.currentPosition = interpolate3(c.currentPosition, target,
                                                      callback.closestHitFraction)]
             ELSE [t EXCEPT
                     !.verticalVelocity = 0,
                     !.verticalOffset = 0,
                     !.lastStepUp = c.stepUpHeight,
                     !.currentPosition = target]
        ELSE [t EXCEPT !.currentPosition = target,
                       !.lastStepUp = c.stepUpHeight]

\* MIN_STEP_DISTANCE_SQUARED = 1.0e-6 m^2, in mm^2
MIN_STEP_DISTANCE_SQUARED == 1
\* stepForward's maxIter
MAX_FORWARD_ITERATIONS == 10

\* stepForward up to its loop: the target, and the shape's margin enlarged
stepForwardBegin(c, movement) ==
    [c EXCEPT !.targetPosition = VAdd(c.currentPosition, movement),
              !.convexShape = [c.convexShape EXCEPT
                                  !.margin = c.convexShape.margin + c.addedMargin],
              !.nullDeref = c.nullDeref \/ ~c.ghostObject.exists
                                        \/ ~c.convexShape.exists]

\* the step after a hit (line 482): stepDotNormal * (1 - closestHitFraction) times
\* the hit normal is added to it
deflectedStep(c, callback) ==
    LET step == VSub(c.targetPosition, c.currentPosition)
        stepDotNormal == VDot(step, callback.hitNormalWorld)
    IN  VAdd(step,
             VDivT(VScale(callback.hitNormalWorld,
                          stepDotNormal * (FractionScale - callback.closestHitFraction)),
                   NormalScale * NormalScale * FractionScale))

\* an iteration that moves the character up to the hit before deflecting
stepForwardSweep_advances(c, callback) ==
    IF callback.hasHit
    THEN LET step == VSub(c.targetPosition, c.currentPosition)
             reached == VAdd(c.currentPosition,
                             VDivT(VScale(step, callback.closestHitFraction),
                                   FractionScale))
         IN  [c EXCEPT !.currentPosition = reached,
                       !.targetPosition = VAdd(reached, deflectedStep(c, callback))]
    ELSE [c EXCEPT !.currentPosition = c.targetPosition]

\* one iteration of stepForward's loop, given the sweep's callback
stepForwardSweep(c, callback) ==
    IF callback.hasHit
    THEN [c EXCEPT !.targetPosition = VAdd(c.currentPosition, deflectedStep(c, callback))]
    ELSE [c EXCEPT !.currentPosition = c.targetPosition]

\* stepForward's end without the setMargin(margin) of line 495
stepForwardEnd_keepsMargin(c, margin) == c

\* stepForward after its loop: the shape's margin restored
stepForwardEnd(c, margin) ==
    [c EXCEPT !.convexShape = [c.convexShape EXCEPT !.margin = margin]]

\* the first sweep of stepDown with the bug of not taking back the step up
stepDownStep_keepsStepUp(c, dt) ==
    VScale(c.currentUp, DivT(c.verticalVelocity * dt, 1000))

\* the first sweep of stepDown
stepDownStep(c, dt) ==
    VScale(c.currentUp, DivT(c.verticalVelocity * dt, 1000) - c.lastStepUp)
\* the second sweep of stepDown
stepDownStep2(c) == VScale(c.currentUp, -c.stepDownHeight)

\* a second sweep made after every first sweep that found nothing
secondSweepMade_whileJumping(c, callback) == ~callback.hasHit

\* whether stepDown makes its second sweep, given the callback of the first
secondSweepMade(c, callback) == ~callback.hasHit /\ ~c.isJumping

\* a landing that leaves the jump going
landed_keepsJumping(c, position) ==
    [c EXCEPT !.currentPosition = position,
              !.verticalVelocity = 0,
              !.verticalOffset = 0,
              !.isOnGround = TRUE]

\* stepDown's landing, after a hit of either sweep
landed(c, position) ==
    [c EXCEPT !.currentPosition = position,
              !.verticalVelocity = 0,
              !.verticalOffset = 0,
              !.isJumping = FALSE,
              !.isOnGround = TRUE]

\* stepDown with the bug of not clearing _isOnGround before its sweeps
stepDown_staysOnGround(c, dt, callback, callback2) ==
    LET step == stepDownStep(c, dt)
        target == VAdd(c.currentPosition, step)
        t == [c EXCEPT !.targetPosition = target,
                       !.nullDeref = c.nullDeref \/ ~c.ghostObject.exists
                                                 \/ ~c.convexShape.exists]
    IN  IF callback.hasHit
        THEN landed(t, VAdd(c.currentPosition,
                            VDivT(VScale(step, callback.closestHitFraction), FractionScale)))
        ELSE IF ~c.isJumping
        THEN LET step2 == stepDownStep2(c)
                 t2 == [t EXCEPT !.currentPosition = target,
                                 !.targetPosition = VAdd(target, step2)]
             IN  IF callback2.hasHit
                 THEN landed(t2, VAdd(target,
                                      VDivT(VScale(step2, callback2.closestHitFraction),
                                            FractionScale)))
                 ELSE [t2 EXCEPT !.lastStepUp = 0]
        ELSE [t EXCEPT !.currentPosition = target]

\* stepDown, given the callbacks of its sweeps (callback2 is used only when the
\* second sweep is made)
stepDown(c, dt, callback, callback2) ==
    LET step == stepDownStep(c, dt)
        target == VAdd(c.currentPosition, step)
        t == [c EXCEPT !.targetPosition = target,
                       !.isOnGround = FALSE,
                       !.nullDeref = c.nullDeref \/ ~c.ghostObject.exists
                                                 \/ ~c.convexShape.exists]
    IN  IF callback.hasHit
        THEN landed(t, VAdd(c.currentPosition,
                            VDivT(VScale(step, callback.closestHitFraction), FractionScale)))
        ELSE IF ~c.isJumping
        THEN LET step2 == stepDownStep2(c)
                 t2 == [t EXCEPT !.currentPosition = target,
                                 !.targetPosition = VAdd(target, step2)]
             IN  IF callback2.hasHit
                 THEN landed(t2, VAdd(target,
                                      VDivT(VScale(step2, callback2.closestHitFraction),
                                            FractionScale)))
                 ELSE [t2 EXCEPT !.lastStepUp = 0]
        ELSE [t EXCEPT !.currentPosition = target]

\* playerStep's last lines: the ghost object moved to _currentPosition
writeGhostTransform(c) ==
    [c EXCEPT !.ghostObject = [c.ghostObject EXCEPT !.origin = c.currentPosition]]

-----------------------------------------------------------------------------
(* The calls of the simulation owner and of the avatar, between frames *)

\* The locals of the simulation step in progress: the time step, the sub-steps made
\* in this frame, preStep's numPenetrationLoops, the contacts and the return value
\* of the last recoverFromPenetration, the _verticalVelocity that playerStep found
\* (fallFrom), the callback(s) of the phase just made,
\* whether stepDown made its second sweep, stepForward's maxIter, stepLength2 and
\* saved margin.
\* usecTimestampNow() counts from 1970: when a run starts, the clock is well past
\* JUMP_TO_HOVER_PERIOD
ClockStart == 2 * USECS_PER_SECOND

NoFrame ==
    [dt |-> 0, steps |-> 0, loops |-> 0, contacts |-> <<>>, penetration |-> FALSE,
     fallFrom |-> 0,
     callback |-> NoHit, callback2 |-> NoHit, sweep2 |-> FALSE,
     maxIter |-> 0, stepLength2 |-> 0, margin |-> 0]

Init ==
    /\ avatar \in [position : {ZeroVec}, orientation : Orientations, velocity : {ZeroVec}]
    \* _boxScale is read by the constructor's updateShapeIfNecessary before any
    \* setLocalBoundingBox has set it
    /\ \E scale \in BoxScales : cc = CharacterController(scale, avatar)
    /\ dw = EmptyWorld
    /\ now = ClockStart
    /\ pc = "idle"
    /\ frame = NoFrame
    /\ lastCall = "CharacterController"
    /\ jumpBegan = 0

SetEnabled ==
    /\ pc = "idle"
    /\ \E enabled \in BOOLEAN :
          /\ cc' = setEnabled(cc, enabled)
          /\ lastCall' = IF enabled THEN "setEnabled(true)" ELSE "setEnabled(false)"
    /\ UNCHANGED <<jumpBegan, dw, avatar, now, pc, frame>>

\* a caller that disables and at once enables the controller again
DisableThenEnable ==
    /\ pc = "idle"
    /\ cc.enabled
    /\ cc' = setEnabled(setEnabled(cc, FALSE), TRUE)
    /\ lastCall' = "setEnabled(false);setEnabled(true)"
    /\ UNCHANGED <<jumpBegan, dw, avatar, now, pc, frame>>

SetLocalBoundingBox ==
    /\ pc = "idle"
    /\ \E corner \in Corners, scale \in BoxScales :
          cc' = setLocalBoundingBox(cc, corner, scale)
    /\ lastCall' = "setLocalBoundingBox"
    /\ UNCHANGED <<jumpBegan, dw, avatar, now, pc, frame>>

SetDynamicsWorld ==
    /\ pc = "idle"
    /\ \E world \in {NULL, WORLD} :
          /\ cc' = setDynamicsWorld(cc, world)
          /\ dw' = worldAfterSetDynamicsWorld(cc, dw, world)
          /\ lastCall' = IF world = NULL THEN "setDynamicsWorld(NULL)"
                                         ELSE "setDynamicsWorld(world)"
    /\ UNCHANGED <<jumpBegan, avatar, now, pc, frame>>

UpdateShapeIfNecessary ==
    /\ pc = "idle"
    /\ cc' = updateShapeIfNecessary(cc, avatar)
    /\ dw' = worldAfterUpdateShape(cc, dw)
    /\ lastCall' = "updateShapeIfNecessary"
    /\ UNCHANGED <<jumpBegan, avatar, now, pc, frame>>

-----------------------------------------------------------------------------
(* A frame of the simulation owner: preSimulation, the dynamics world's          *)
(* sub-step (it calls the controller's preStep and playerStep), and              *)
(* postSimulation.  The collision world's answers are inputs: what the ray, the  *)
(* sweeps and the overlap test can report in the scene the character is in.      *)

\* directions in the character's frame, as normals scaled by NormalScale
N_UP == Vec(0, NormalScale)
N_DOWN == Vec(0, -NormalScale)
N_LEFT == Vec(-NormalScale, 0)
N_RIGHT == Vec(NormalScale, 0)
N_SLOPE == Vec(-3, 4)
N_STEEP == Vec(-4, 3)
N_OVERHANG == Vec(-3, -4)

\* the scenes: nothing around; a floor somewhere below; a floor and a ceiling; a
\* floor and a wall ahead; a floor and a steep face ahead; the edge of a ledge; a
\* floor the character has sunk into; a wall it is wedged against; both
Scenes == {"air", "floor", "ceiling", "wall", "slope", "ledge", "sunk", "wedged", "corner"}
\* the scenes in which the avatar walks
WalkedScenes == {"wall", "slope", "ledge"}

\* a step of the model's clock, and the time step (ms) of the owner's frames
ClockStepUsecs == USECS_PER_SECOND \div 2
TimeSteps == { ClockStepUsecs \div 1000 }
\* the velocity of the avatar, in the character's frame (mm/s)
sceneVelocity(scene) == IF scene \in WalkedScenes THEN Vec(2000, 0) ELSE ZeroVec
\* speeds the avatar sets as jump speed and as maximal fall speed
Speeds == { JUMP_SPEED \div 5, JUMP_SPEED }

Fractions == { (k * FractionScale) \div FractionSteps : k \in 0..FractionSteps }
\* where the downward ray can hit the floor: nearer than MIN_HOVER_HEIGHT, farther,
\* at its end
RayFractions == { FractionScale \div 8, FractionScale \div 4, FractionScale }

\* what the ray of scanDown can meet, for a character turned by q; at the "brink"
\* of a floor the ray from the centre meets the floor under the character, a
\* floor far below the brink, or nothing
RayOffers(scene, q, c) ==
    LET below == VSub(c.currentPosition, quatRotate(q, Vec(0, c.radius + c.halfHeight)))
        floor(f) == Candidate(f, quatRotate(q, N_UP), below, "body")
        me == Candidate(0, quatRotate(q, N_UP), c.currentPosition, "me")
    IN  CASE scene = "air" -> {{}, {me}}
          [] scene = "floor" -> {{}, {me}, {me, floor(FractionScale \div 4)}}
                                   \cup {{floor(f)} : f \in RayFractions}
          [] scene = "brink" -> {{me}, {me, floor(FractionScale \div 8)},
                                 {me, floor(FractionScale)}}
          [] OTHER -> {{me, floor(FractionScale \div 8)}}

\* what the sweep of stepUp can meet
UpOffers(scene, q, c) ==
    LET above == VAdd(c.currentPosition, quatRotate(q, Vec(0, c.radius + c.halfHeight)))
        hit(f, n, obj) == Candidate(f, quatRotate(q, n), above, obj)
    IN  CASE scene = "ceiling" ->
                {{}, {hit(0, N_DOWN, "me")}, {hit(0, N_DOWN, "sensor")},
                 {hit(FractionScale \div 2, N_UP, "body")},
                 {hit(FractionScale \div 2, N_RIGHT, "body")},
                 {hit(FractionScale \div 2, N_OVERHANG, "body")}}
                \cup {{hit(f, N_DOWN, "body")} : f \in Fractions}
          [] OTHER -> {{}, {hit(0, N_DOWN, "me")}}

\* what a sweep of stepForward can meet
ForwardOffers(scene, q, c) ==
    LET front == VAdd(c.currentPosition, quatRotate(q, Vec(c.radius, 0)))
        hit(f, n, obj) == Candidate(f, quatRotate(q, n), front, obj)
    IN  CASE scene = "wall" ->
                {{}, {hit(0, N_LEFT, "sensor")}, {hit(0, N_RIGHT, "body")},
                 {hit(0, N_LEFT, "me"), hit(FractionScale \div 2, N_LEFT, "body")}}
          [] scene = "slope" -> {{}, {hit(FractionScale \div 2, N_STEEP, "body")}}
          [] OTHER -> {{}, {hit(0, N_LEFT, "me")}}

\* The scenes "embedded" and "pit" have a floor (and, in the pit, a walkable slope
\* too, rising to the character's right) through the place where the base of a
\* character stands whose avatar is at the origin.  planeDistance is the distance
\* from the plane of normal n to the base of the character at position: negative
\* when the character has sunk into it.
planeDistance(q, c, position, n) ==
    DivT(VDot(VSub(position, quatRotate(q, c.shapeLocalOffset)), quatRotate(q, n)),
         NormalScale)

\* what a sweep of stepDown from start by step can meet: a floor or a steep face
\* under the feet, a wall or a steep face at the character's side; in the scenes
\* "embedded" and "pit", the floor where the sweep reaches it (a sweep that starts
\* inside the floor reports it at once or not at all)
DownOffers(scene, q, c, start, step) ==
    LET feet == VSub(start, quatRotate(q, Vec(0, c.radius + c.halfHeight)))
        side == VAdd(start, quatRotate(q, Vec(c.radius, 0)))
        hit(f, n, pt, obj) == Candidate(f, quatRotate(q, n), pt, obj)
    IN  CASE scene = "air" -> {{}, {hit(0, N_UP, feet, "me")}}
          [] scene = "floor" ->
                {{}, {hit(0, N_UP, feet, "sensor")}}
                \cup {{hit(f, N_UP, feet, "body")} : f \in Fractions}
          [] scene = "ledge" ->
                {{},
                 {hit(FractionScale \div 2, N_STEEP, feet, "body")},
                 {hit(FractionScale \div 2, N_STEEP, side, "body")},
                 {hit(FractionScale \div 2, N_LEFT, side, "body")},
                 {hit(FractionScale \div 2, N_RIGHT, side, "body")},
                 {hit(FractionScale \div 2, N_RIGHT, side, "body"),
                  hit(FractionScale, N_UP, feet, "body")}}
          [] scene \in {"embedded", "pit"} ->
                LET h == planeDistance(q, c, start, N_UP)
                    length == ISqrt(VLength2(step))
                IN  IF h < 0 THEN {{}, {hit(0, N_UP, feet, "body")}}
                    ELSE IF h <= length /\ length > 0
                    THEN {{hit(DivT(h * FractionScale, length), N_UP, feet, "body")}}
                    ELSE {{}}
          [] OTHER -> {{hit(FractionScale, N_UP, feet, "body")}}

\* the contacts recoverFromPenetration can find: none, a floor under the feet, a
\* wall at the feet and at the side, with and without penetration; in the scenes
\* "embedded" and "pit", the contacts that the character's position gives
Manifolds(scene, q, c) ==
    LET base == VSub(c.ghostObject.origin, quatRotate(q, Vec(0, c.radius + c.halfHeight)))
        low == VAdd(base, quatRotate(q, Vec(c.radius, 50)))
        high == VAdd(base, quatRotate(q, Vec(c.radius, c.radius + c.halfHeight)))
        k(resp, dist, n, pt) == Contact(resp, TRUE, dist, quatRotate(q, n), pt, pt)
    IN  CASE scene = "sunk" -> { <<>>, << k(TRUE, -50, N_UP, base) >> }
          [] scene = "wedged" ->
                { <<>>,
                  << k(TRUE, -50, N_LEFT, low) >>,
                  << k(TRUE, -50, N_LEFT, high) >>,
                  << k(FALSE, -50, N_LEFT, high) >>,
                  << k(TRUE, 10, N_LEFT, high) >> }
          [] scene = "corner" ->
                { <<>>, << k(TRUE, -50, N_LEFT, low), k(TRUE, -100, N_UP, base) >> }
          [] scene = "embedded" ->
                { IF planeDistance(q, c, c.ghostObject.origin, N_UP) <= ADDED_MARGIN
                  THEN << k(TRUE, planeDistance(q, c, c.ghostObject.origin, N_UP), N_UP, base) >>
                  ELSE <<>> }
          [] scene = "pit" ->
                { IF planeDistance(q, c, c.ghostObject.origin, N_UP) <= ADDED_MARGIN
                  THEN << k(TRUE, planeDistance(q, c, c.ghostObject.origin, N_UP), N_UP, base),
                          Contact(TRUE, FALSE, planeDistance(q, c, c.ghostObject.origin, N_SLOPE),
                                  quatRotate(q, VScale(N_SLOPE, -1)), base, base) >>
                  ELSE <<>> }
          [] OTHER -> { <<>> }

Jump ==
    /\ pc = "idle"
    /\ cc' = jump(cc, now)
    /\ lastCall' = "jump"
    /\ UNCHANGED <<jumpBegan, dw, avatar, now, pc, frame>>

SetJumpSpeed ==
    /\ pc = "idle"
    /\ \E speed \in Speeds : cc' = setJumpSpeed(cc, speed)
    /\ lastCall' = "setJumpSpeed"
    /\ UNCHANGED <<jumpBegan, dw, avatar, now, pc, frame>>

SetMaxFallSpeed ==
    /\ pc = "idle"
    /\ \E speed \in Speeds : cc' = setMaxFallSpeed(cc, speed)
    /\ lastCall' = "setMaxFallSpeed"
    /\ UNCHANGED <<jumpBegan, dw, avatar, now, pc, frame>>

\* The owner starts a frame: the wall clock has advanced by the frame's time step.
PreSimulation ==
    /\ pc = "idle"
    /\ \E timeStep \in TimeSteps :
          /\ now + timeStep * 1000 <= ClockStart + MaxClockSteps * ClockStepUsecs
          /\ now' = now + timeStep * 1000
          /\ cc' = preSimulation(cc, avatar, timeStep)
          /\ frame' = [NoFrame EXCEPT !.dt = timeStep]
    /\ jumpBegan' = IF jumpHonoured(cc) THEN now ELSE jumpBegan
    /\ pc' = "simulate"
    /\ lastCall' = "preSimulation"
    /\ UNCHANGED <<dw, avatar>>

\* The avatar's owner while the jump key is held: it calls jump() and then starts
\* the frame.
JumpThenPreSimulation ==
    /\ pc = "idle"
    /\ \E timeStep \in TimeSteps :
          /\ now + timeStep * 1000 <= ClockStart + MaxClockSteps * ClockStepUsecs
          /\ now' = now + timeStep * 1000
          /\ cc' = preSimulation(jump(cc, now), avatar, timeStep)
          /\ frame' = [NoFrame EXCEPT !.dt = timeStep]
    /\ jumpBegan' = IF jumpHonoured(jump(cc, now)) THEN now ELSE jumpBegan
    /\ pc' = "simulate"
    /\ lastCall' = "jump;preSimulation"
    /\ UNCHANGED <<dw, avatar>>

\* the dynamics world, in the frame's sub-step, calls the action interface of the
\* controller it has enrolled: preStep, then playerStep
PreStep ==
    /\ pc = "simulate"
    /\ dw.actions > 0
    /\ frame.steps = 0
    /\ IF ~cc.enabled
       THEN /\ pc' = "playerStep"
            /\ UNCHANGED <<jumpBegan, cc, frame>>
       ELSE /\ cc' = [cc EXCEPT !.touchingContact = FALSE]
            /\ frame' = [frame EXCEPT !.loops = 0]
            /\ pc' = "recover"
    /\ lastCall' = "preStep"
    /\ UNCHANGED <<jumpBegan, dw, avatar, now>>

\* preStep's loop with the bug of breaking one turn too late
RecoverFromPenetration_lateBreak ==
    /\ pc = "recover"
    /\ \E contacts \in Manifolds(dw.scene, avatar.orientation, cc) :
          LET penetration == recoverResult(cc, contacts).penetration
              recovered == recoverFromPenetration(cc, contacts)
          IN  /\ frame' = [frame EXCEPT
                              !.contacts = contacts,
                              !.penetration = penetration,
                              !.loops = IF penetration THEN frame.loops + 1
                                        ELSE frame.loops]
              /\ IF penetration
                 THEN /\ cc' = [recovered EXCEPT !.touchingContact = TRUE]
                      /\ pc' = IF frame.loops + 1 > 5 THEN "playerStep" ELSE "recover"
                 ELSE /\ cc' = recovered
                      /\ pc' = "playerStep"
    /\ UNCHANGED <<jumpBegan, dw, avatar, now, lastCall>>

\* one turn of preStep's loop: a call of recoverFromPenetration; and, when the loop
\* ends with it, preStep's last lines
RecoverFromPenetration ==
    /\ pc = "recover"
    /\ \E contacts \in Manifolds(dw.scene, avatar.orientation, cc) :
          LET penetration == recoverResult(cc, contacts).penetration
              recovered == recoverFromPenetration(cc, contacts)
          IN  /\ frame' = [frame EXCEPT
                              !.contacts = contacts,
                              !.penetration = penetration,
                              !.loops = IF penetration THEN frame.loops + 1
                                        ELSE frame.loops]
              /\ IF penetration
                 THEN /\ cc' = [recovered EXCEPT !.touchingContact = TRUE]
                      /\ pc' = IF frame.loops + 1 > 4 THEN "playerStep" ELSE "recover"
                 ELSE /\ cc' = recovered
                      /\ pc' = "playerStep"
    /\ UNCHANGED <<jumpBegan, dw, avatar, now, lastCall>>

\* playerStep up to scanDown
PlayerStep ==
    /\ pc = "playerStep"
    /\ IF ~cc.enabled
       THEN /\ pc' = "simulate"
            /\ frame' = [frame EXCEPT !.steps = frame.steps + 1]
            /\ cc' = cc
       ELSE /\ cc' = updateFallVelocity(cc, frame.dt)
            /\ frame' = [frame EXCEPT !.contacts = <<>>, !.penetration = FALSE,
                                      !.fallFrom = cc.verticalVelocity]
            /\ pc' = "scanDown"
    /\ lastCall' = "playerStep"
    /\ UNCHANGED <<jumpBegan, dw, avatar, now>>

ScanDown ==
    /\ pc = "scanDown"
    /\ \E offer \in RayOffers(dw.scene, avatar.orientation, cc) :
       \E callback \in closestResults({k \in offer : rayAccepts(k)}) :
          /\ cc' = scanDown(cc, callback)
          /\ frame' = [frame EXCEPT !.callback = callback]
    /\ pc' = "stepUp"
    /\ UNCHANGED <<jumpBegan, dw, avatar, now, lastCall>>

StepUp ==
    /\ pc = "stepUp"
    /\ \E offer \in UpOffers(dw.scene, avatar.orientation, cc) :
       \E callback \in closestResults(
                {k \in offer : notMeConvexAccepts(k, VScale(cc.currentUp, -1), 7071)}) :
          /\ cc' = stepUp(cc, callback)
          /\ frame' = [frame EXCEPT !.callback = callback]
    /\ pc' = "stepForward"
    /\ UNCHANGED <<jumpBegan, dw, avatar, now, lastCall>>

\* playerStep, lines 657-660: the part of dt the character moves for
dtMoving(c, dt) == IF dt < c.velocityTimeInterval THEN dt ELSE c.velocityTimeInterval
consumeInterval(c, dt) ==
    [c EXCEPT !.velocityTimeInterval = c.velocityTimeInterval - dt,
              !.stepDt = c.stepDt + dt]

\* whether stepForward's loop makes another iteration
forwardLoopGoesOn(stepLength2, maxIter) ==
    stepLength2 > MIN_STEP_DISTANCE_SQUARED /\ maxIter > 0

\* playerStep's sub-step, and stepForward up to its loop (and, when the loop makes
\* no iteration, to its end)
StepForward ==
    /\ pc = "stepForward"
    /\ LET move == VDivT(VScale(cc.walkDirection, dtMoving(cc, frame.dt)), 1000)
           begun == stepForwardBegin(consumeInterval(cc, frame.dt), move)
           margin == cc.convexShape.margin
       IN  /\ frame' = [frame EXCEPT !.callback = NoHit,
                                     !.margin = margin,
                                     !.maxIter = MAX_FORWARD_ITERATIONS,
                                     !.stepLength2 = VLength2Capped(move)]
           /\ IF forwardLoopGoesOn(VLength2Capped(move), MAX_FORWARD_ITERATIONS)
              THEN cc' = begun /\ pc' = "sweepForward"
              ELSE cc' = stepForwardEnd(begun, margin) /\ pc' = "stepDown"
    /\ UNCHANGED <<jumpBegan, dw, avatar, now, lastCall>>

\* one iteration of stepForward's loop (and, when it is the last, stepForward's end)
SweepForward ==
    /\ pc = "sweepForward"
    /\ \E offer \in ForwardOffers(dw.scene, avatar.orientation, cc) :
       \E callback \in closestResults(
                {k \in offer : notMeConvexAccepts(
                                   k, VSub(cc.currentPosition, cc.targetPosition), 0)}) :
          LET swept == stepForwardSweep(cc, callback)
              stepLength2 == IF callback.hasHit
                             THEN VLength2Capped(deflectedStep(cc, callback))
                             ELSE frame.stepLength2
              goesOn == callback.hasHit
                        /\ forwardLoopGoesOn(stepLength2, frame.maxIter - 1)
          IN  /\ frame' = [frame EXCEPT !.callback = callback,
                                        !.maxIter = frame.maxIter - 1,
                                        !.stepLength2 = stepLength2]
              /\ IF goesOn
                 THEN cc' = swept /\ pc' = "sweepForward"
                 ELSE cc' = stepForwardEnd(swept, frame.margin) /\ pc' = "stepDown"
    /\ UNCHANGED <<jumpBegan, dw, avatar, now, lastCall>>

\* stepDown, and playerStep's last lines; the locals of stepForward are gone
StepDown ==
    /\ pc = "stepDown"
    /\ LET q == avatar.orientation
           start == cc.currentPosition
           step == stepDownStep(cc, frame.dt)
           start2 == VAdd(start, step)
           step2 == stepDownStep2(cc)
           accepted(offer, from, by) ==
               {k \in offer : stepDownAccepts(k, cc.currentUp, from, by, cc.walkDirection,
                                              cc.maxSlopeCosine, cc.radius, cc.halfHeight)}
           left == [frame EXCEPT !.maxIter = 0, !.stepLength2 = 0, !.margin = 0,
                                 !.steps = frame.steps + 1]
       IN  \E offer \in DownOffers(dw.scene, q, cc, start, step) :
           \E callback \in closestResults(accepted(offer, start, step)) :
              IF secondSweepMade(cc, callback)
              THEN \E offer2 \in DownOffers(dw.scene, q, cc, start2, step2) :
                   \* callback2 is made before _currentPosition moves: its _start is start
                   \E callback2 \in closestResults(accepted(offer2, start, step2)) :
                      /\ cc' = writeGhostTransform(stepDown(cc, frame.dt, callback, callback2))
                      /\ frame' = [left EXCEPT !.callback = callback,
                                               !.callback2 = callback2,
                                               !.sweep2 = TRUE]
              ELSE /\ cc' = writeGhostTransform(stepDown(cc, frame.dt, callback, NoHit))
                   /\ frame' = [left EXCEPT !.callback = callback,
                                            !.callback2 = NoHit,
                                            !.sweep2 = FALSE]
    /\ pc' = "simulate"
    /\ UNCHANGED <<jumpBegan, dw, avatar, now, lastCall>>

\* the owner ends the frame
PostSimulation ==
    /\ pc = "simulate"
    /\ avatar' = postSimulation(cc, avatar)
    /\ pc' = "idle"
    /\ frame' = NoFrame
    /\ lastCall' = "postSimulation"
    /\ UNCHANGED <<jumpBegan, cc, dw, now>>

\* a controller enabled, sized by setLocalBoundingBox and enrolled by its owner
enrolled(c, av, corner, scale) ==
    setDynamicsWorld(
        updateShapeIfNecessary(
            setLocalBoundingBox(setEnabled(c, TRUE), corner, scale), av),
        WORLD)

\* the bounding box of the character that is simulated: radius 300, halfHeight 600
StepBox == [x |-> 600, y |-> 1800, z |-> 600]

\* an enabled, enrolled controller in one of the scenes, before its first frame
InitIn(scenes) ==
    /\ \E scene \in scenes, q \in Orientations :
          /\ avatar = [position |-> ZeroVec, orientation |-> q,
                       velocity |-> quatRotate(q, sceneVelocity(scene))]
          /\ LET c == enrolled(CharacterController(StepBox, avatar), avatar, ZeroVec, StepBox)
             IN  /\ cc = c
                 /\ dw = [worldAfterSetDynamicsWorld([c EXCEPT !.dynamicsWorld = NULL],
                                                     EmptyWorld, WORLD)
                            EXCEPT !.scene = scene]
    /\ now = ClockStart
    /\ pc = "idle"
    /\ frame = NoFrame
    /\ lastCall = "setDynamicsWorld(world)"
    /\ jumpBegan = 0

InitStep == InitIn(Scenes)

NextStep ==
    \/ Jump
    \/ PreSimulation
    \/ PreStep
    \/ RecoverFromPenetration
    \/ PlayerStep
    \/ ScanDown
    \/ StepUp
    \/ StepForward
    \/ SweepForward
    \/ StepDown
    \/ PostSimulation

\* the frames of an enabled, enrolled controller, whose avatar may ask for jumps
SpecStep == InitStep /\ [][NextStep]_vars

\* an open floor, and a floor with a wall ahead
InitFloor == InitIn({"floor", "wall"})

NextSpeeds ==
    \/ SetJumpSpeed
    \/ SetMaxFallSpeed
    \/ NextStep

\* the frames of a controller on a floor whose avatar also sets the jump speed and
\* the maximal fall speed
SpecSpeeds == InitFloor /\ [][NextSpeeds]_vars

NextHold ==
    \/ JumpThenPreSimulation
    \/ PreStep
    \/ RecoverFromPenetration
    \/ PlayerStep
    \/ ScanDown
    \/ StepUp
    \/ StepForward
    \/ SweepForward
    \/ StepDown
    \/ PostSimulation

\* the frames of a controller on a floor while the jump key is held: jump() is
\* called at the start of every frame
SpecHold == InitFloor /\ [][NextHold]_vars

NextLifecycle ==
    \/ SetEnabled
    \/ DisableThenEnable
    \/ SetLocalBoundingBox
    \/ SetDynamicsWorld
    \/ UpdateShapeIfNecessary

\* any sequence of the calls that enable the controller, size it and enroll it
SpecLifecycle == Init /\ [][NextLifecycle]_vars

\* The tick of the simulation owner, before it steps the dynamics world: if
\* needsRemoval() then setDynamicsWorld(NULL); updateShapeIfNecessary(); if
\* needsAddition() then setDynamicsWorld(world).
OwnerRemoval ==
    /\ pc = "idle"
    /\ IF needsRemoval(cc)
       THEN /\ cc' = setDynamicsWorld(cc, NULL)
            /\ dw' = worldAfterSetDynamicsWorld(cc, dw, NULL)
            /\ lastCall' = "setDynamicsWorld(NULL)"
       ELSE /\ lastCall' = "needsRemoval"
            /\ UNCHANGED <<cc, dw>>
    /\ pc' = "ownerShape"
    /\ UNCHANGED <<jumpBegan, avatar, now, frame>>

OwnerUpdateShape ==
    /\ pc = "ownerShape"
    /\ cc' = updateShapeIfNecessary(cc, avatar)
    /\ dw' = worldAfterUpdateShape(cc, dw)
    /\ lastCall' = IF PENDING_FLAG_UPDATE_SHAPE \in cc.pendingFlags
                   THEN IF lastCall = "setDynamicsWorld(NULL)"
                        THEN "setDynamicsWorld(NULL);updateShapeIfNecessary(pending)"
                        ELSE "updateShapeIfNecessary(pending)"
                   ELSE "updateShapeIfNecessary"
    /\ pc' = "ownerAdd"
    /\ UNCHANGED <<jumpBegan, avatar, now, frame>>

OwnerAddition ==
    /\ pc = "ownerAdd"
    /\ IF needsAddition(cc)
       THEN /\ cc' = setDynamicsWorld(cc, WORLD)
            /\ dw' = worldAfterSetDynamicsWorld(cc, dw, WORLD)
            /\ lastCall' = "setDynamicsWorld(world)"
       ELSE /\ lastCall' = "needsAddition"
            /\ UNCHANGED <<cc, dw>>
    /\ pc' = "idle"
    /\ UNCHANGED <<jumpBegan, avatar, now, frame>>

NextOwner ==
    \/ SetEnabled
    \/ SetLocalBoundingBox
    \/ OwnerRemoval
    \/ OwnerUpdateShape
    \/ OwnerAddition

\* the controller from its construction on, under the ticks of its owner, with the
\* avatar's setEnabled and setLocalBoundingBox calls between the ticks
SpecOwner == Init /\ [][NextOwner]_vars

\* the same, the owner never ceasing to tick
SpecOwnerTicks ==
    /\ Init
    /\ [][NextOwner]_vars
    /\ WF_vars(OwnerRemoval \/ OwnerUpdateShape \/ OwnerAddition)

NextSoftOff ==
    \/ SetEnabled
    \/ PreSimulation
    \/ PreStep
    \/ RecoverFromPenetration
    \/ PlayerStep
    \/ ScanDown
    \/ StepUp
    \/ StepForward
    \/ StepDown
    \/ PostSimulation

\* the frames of a controller on a floor that its avatar disables and enables
\* between frames, while its owner leaves it enrolled
SpecSoftOff == InitIn({"floor"}) /\ [][NextSoftOff]_vars

\* the owner withdraws and enrolls the controller between the frames of a
\* simulation in which its avatar walks along a ledge and asks for jumps
NextEnroll ==
    \/ SetDynamicsWorld
    \/ NextStep

SpecEnroll == InitIn({"ledge"}) /\ [][NextEnroll]_vars

\* the frames of a controller that stands at the brink of a floor, its side above
\* the floor and the ray from its centre passing the brink or not, while its
\* avatar asks for jumps and disables and enables it and its owner withdraws and
\* enrolls it between frames
NextBrink ==
    \/ Jump
    \/ SetDynamicsWorld
    \/ NextSoftOff

SpecBrink == InitIn({"brink"}) /\ [][NextBrink]_vars

\* an enabled, enrolled controller in one of the scenes, before its first frame,
\* whose avatar stands still at one of the heights over the origin
InitAt(scenes, heights) ==
    /\ \E scene \in scenes, q \in Orientations, h \in heights :
          /\ avatar = [position |-> quatRotate(q, Vec(0, h)), orientation |-> q,
                       velocity |-> ZeroVec]
          /\ LET c == enrolled(CharacterController(StepBox, avatar), avatar, ZeroVec, StepBox)
             IN  /\ cc = c
                 /\ dw = [worldAfterSetDynamicsWorld([c EXCEPT !.dynamicsWorld = NULL],
                                                     EmptyWorld, WORLD)
                            EXCEPT !.scene = scene]
    /\ now = ClockStart
    /\ pc = "idle"
    /\ frame = NoFrame
    /\ lastCall = "setDynamicsWorld(world)"
    /\ jumpBegan = 0

\* the frames of a character whose avatar neither walks nor jumps
NextStand ==
    \/ PreSimulation
    \/ PreStep
    \/ RecoverFromPenetration
    \/ PlayerStep
    \/ ScanDown
    \/ StepUp
    \/ StepForward
    \/ StepDown
    \/ PostSimulation

\* a frame of 1/60 s, in ms
SixtiethMs == 17
\* the sub-steps the dynamics world makes in a frame, at most
MaxSubSteps == 2

\* The owner starts the first frame, which lasts 1/60 s.
PreSimulationSixtieth ==
    /\ pc = "idle"
    /\ now = ClockStart
    /\ now' = now + SixtiethMs * 1000
    /\ cc' = preSimulation(cc, avatar, SixtiethMs)
    /\ frame' = [NoFrame EXCEPT !.dt = SixtiethMs]
    /\ jumpBegan' = IF jumpHonoured(cc) THEN now ELSE jumpBegan
    /\ pc' = "simulate"
    /\ lastCall' = "preSimulation"
    /\ UNCHANGED <<dw, avatar>>

\* the dynamics world makes another sub-step in the frame: preStep, then playerStep
PreStepAgain ==
    /\ pc = "simulate"
    /\ dw.actions > 0
    /\ frame.steps \in 1..(MaxSubSteps - 1)
    /\ cc.enabled
    /\ cc' = [cc EXCEPT !.touchingContact = FALSE]
    /\ frame' = [frame EXCEPT !.loops = 0]
    /\ pc' = "recover"
    /\ lastCall' = "preStep"
    /\ UNCHANGED <<jumpBegan, dw, avatar, now>>

NextSubSteps ==
    \/ PreSimulation
    \/ PreStep
    \/ PreStepAgain
    \/ RecoverFromPenetration
    \/ PlayerStep
    \/ ScanDown
    \/ StepUp
    \/ StepForward
    \/ SweepForward
    \/ StepDown
    \/ PostSimulation

\* the frames, of one or more sub-steps, of a character that walks towards a wall
SpecSubSteps == InitIn({"wall"}) /\ [][NextSubSteps]_vars

NextLanding ==
    \/ PreSimulationSixtieth
    \/ NextStand

\* the frames, the first of 1/60 s, of a character that stands 10 mm over a floor
SpecLanding == InitAt({"embedded"}, {10}) /\ [][NextLanding]_vars

\* the frames of a character that stands among objects it may touch or penetrate;
\* the dynamics world does not stop in the middle of a preStep
\* walking into the wall, every begun loop of stepForward being carried on
SpecForward ==
    /\ InitIn({"wall"})
    /\ [][NextStep]_vars
    /\ WF_vars(SweepForward)

SpecContacts ==
    /\ InitIn({"sunk", "wedged", "corner"})
    /\ [][NextStand]_vars
    /\ WF_vars(RecoverFromPenetration)

\* how deep (mm) the character has sunk into the floor when the frames begin: not
\* at all, or so deep that the 0.2 * depth of a call of recoverFromPenetration,
\* which positions in whole mm truncate, stays well above 1 mm in all 5 calls
Depths == {0, 500, 2000}

\* the frames of a character that has sunk into a floor, or into a pit
SpecRecover ==
    InitAt({"embedded", "pit"}, {-d : d \in Depths}) /\ [][NextStand]_vars

-----------------------------------------------------------------------------
(* C1 *)

\* C1 as stated: setEnabled(false) then setEnabled(true), with no setDynamicsWorld
\* call in between, on an enabled controller leaves needsAddition() true and
\* needsRemoval() with the value it had before the two calls.
C1_RemovalUnchangedByDisableEnable ==
    [][DisableThenEnable =>
          /\ needsAddition(cc')
          /\ needsRemoval(cc') = needsRemoval(cc)]_vars

\* C1 as amended: setEnabled(false) then setEnabled(true), with no setDynamicsWorld
\* call in between, on an enabled controller leaves needsAddition() true, and
\* needsRemoval() true exactly when it was true before the two calls or the
\* controller is enrolled in a dynamics world (for an enrolled controller the pair
\* asks for a removal and an addition).
C1_DisableEnableAsksRemovalOfEnrolled ==
    [][DisableThenEnable =>
          /\ needsAddition(cc')
          /\ needsRemoval(cc') = (needsRemoval(cc) \/ cc.dynamicsWorld # NULL)]_vars

\* the two calls have been made on an enrolled controller that had no removal
\* pending: UPDATE_SHAPE is not pending, so the removal now pending is theirs
C1_Witness ==
    /\ lastCall = "setEnabled(false);setEnabled(true)"
    /\ cc.dynamicsWorld # NULL
    /\ cc.pendingFlags = {PENDING_FLAG_ADD_TO_SIMULATION,
                          PENDING_FLAG_REMOVE_FROM_SIMULATION}

-----------------------------------------------------------------------------
(* C2, C3: scanDown *)

-----------------------------------------------------------------------------
(* C4: stepDown *)

\* C4: after stepDown, isOnGround is true if and only if one of the sweeps made in
\* the call had a hit; and if no sweep hit and the controller was not jumping on
\* entry, isOnGround is false and lastStepUp is 0.
C4_OnGroundIffSweepHit ==
    [][StepDown =>
          LET hit1 == frame'.callback.hasHit
              hit2 == frame'.sweep2 /\ frame'.callback2.hasHit
          IN  /\ cc'.isOnGround <=> (hit1 \/ hit2)
              /\ (~hit1 /\ ~hit2 /\ ~cc.isJumping) =>
                    (~cc'.isOnGround /\ cc'.lastStepUp = 0)]_vars

\* stepDown has returned after two sweeps without a hit: the controller is in the
\* air and lastStepUp is 0
C4_Witness ==
    /\ pc = "simulate"
    /\ frame.steps = 1
    /\ frame.sweep2
    /\ ~frame.callback.hasHit
    /\ ~frame.callback2.hasHit
    /\ ~cc.isOnGround
    /\ cc.lastStepUp = 0

-----------------------------------------------------------------------------
(* C5: the clamp of the vertical velocity *)

\* C5: right after playerStep has returned on an enabled controller, if isHovering
\* is false then -maxFallSpeed <= verticalVelocity <= jumpSpeed.
C5_VelocityClampedWhenNotHovering ==
    (pc = "simulate" /\ frame.steps = 1 /\ cc.enabled /\ ~cc.isHovering) =>
        /\ -cc.maxFallSpeed <= cc.verticalVelocity
        /\ cc.verticalVelocity <= cc.jumpSpeed

-----------------------------------------------------------------------------
(* C6: stepUp *)

\* C6: stepUp does not decrease the component of currentPosition along currentUp
\* unless its sweep has a hit, and, hit or no hit, the component increases by at
\* most stepUpHeight.
C6_StepUpRisesAtMostStepUpHeight ==
    [][StepUp =>
          LET rise == VDot(VSub(cc'.currentPosition, cc.currentPosition), cc.currentUp)
          IN  /\ ~frame'.callback.hasHit => rise >= 0
              /\ rise <= cc.stepUpHeight]_vars

\* stepUp has returned after a sweep that hit a ceiling: the character is
\* stepUpHeight above the place playerStep found it at
C6_Witness ==
    /\ pc = "stepForward"
    /\ frame.callback.hasHit
    /\ VDot(VSub(cc.currentPosition, cc.ghostObject.origin), cc.currentUp)
          = cc.stepUpHeight

-----------------------------------------------------------------------------
(* C7: recoverFromPenetration *)

\* the height of contact k above the character's base, for the character at origin
C7_Height(k, origin) ==
    LET point == IF k.body0IsGhost THEN k.positionWorldOnB ELSE k.positionWorldOnA
        base == VSub(origin, VScale(cc.currentUp, cc.radius + cc.halfHeight))
    IN  VDot(VSub(point, base), cc.currentUp)

\* the corrective displacement for contact k: 0.2 of its depth, along its normal
C7_Correction(k) ==
    VDivT(VScale(contactNormal(k), 2 * (IF k.distance < 0 THEN -k.distance ELSE k.distance)),
          10 * NormalScale)

RECURSIVE C7_Sum(_, _)
C7_Sum(ks, S) ==
    IF S = {} THEN ZeroVec
    ELSE LET i == CHOOSE j \in S : TRUE
         IN  VAdd(C7_Correction(ks[i]), C7_Sum(ks, S \ {i}))

\* the call of recoverFromPenetration made in this step is accounted for without
\* the contacts numbered in left: the displacement is the sum of the corrections
\* for some of the other penetrating contacts, and the call returns true only if
\* there is one of these
C7_ResolvedWithout(left) ==
    LET ks == frame'.contacts
        others == {i \in DOMAIN ks : ks[i].response /\ ks[i].distance < 0 /\ i \notin left}
    IN  \E S \in SUBSET others :
           /\ cc'.currentPosition = VAdd(cc.ghostObject.origin, C7_Sum(ks, S))
           /\ frame'.penetration = (S # {})

\* C7 as stated: for every penetrating contact whose height above the character's
\* base is strictly below lastStepUp, recoverFromPenetration adds no corrective
\* displacement and the contact does not make the call return true.
C7_ContactsBelowLastStepUpIgnored ==
    [][RecoverFromPenetration =>
          C7_ResolvedWithout(
             {i \in DOMAIN frame'.contacts :
                 /\ frame'.contacts[i].distance < 0
                 /\ C7_Height(frame'.contacts[i], cc.ghostObject.origin)
                       < cc.lastStepUp})]_vars

\* C7 as amended: for every penetrating contact of a non-walkable surface
\* (normal . up < maxSlopeCosine) whose height above the character's base is
\* strictly below lastStepUp, recoverFromPenetration adds no corrective
\* displacement and the contact does not make the call return true.
C7_SteepContactsBelowLastStepUpIgnored ==
    [][RecoverFromPenetration =>
          C7_ResolvedWithout(
             {i \in DOMAIN frame'.contacts :
                 /\ frame'.contacts[i].distance < 0
                 /\ VDot(contactNormal(frame'.contacts[i]), cc.currentUp) * 1000
                       < cc.maxSlopeCosine * NormalScale
                 /\ C7_Height(frame'.contacts[i], cc.ghostObject.origin)
                       < cc.lastStepUp})]_vars

\* recoverFromPenetration has returned false, having found one contact: a
\* penetrating contact of a wall, with contact response, below lastStepUp
C7_Witness ==
    /\ pc = "playerStep"
    /\ Len(frame.contacts) = 1
    /\ frame.contacts[1].response
    /\ frame.contacts[1].distance < 0
    /\ VDot(contactNormal(frame.contacts[1]), cc.currentUp) * 1000
          < cc.maxSlopeCosine * NormalScale
    /\ C7_Height(frame.contacts[1], cc.ghostObject.origin) < cc.lastStepUp
    /\ ~frame.penetration
    /\ cc.currentPosition = cc.ghostObject.origin

-----------------------------------------------------------------------------
(* C8: the jump *)

\* C8: jump() only asks for a jump; the request takes effect in preSimulation
\* (enabled and enrolled) and only if isOnGround is true then: verticalVelocity
\* becomes jumpSpeed and isJumping true; if isOnGround is false then, the request
\* is dropped (flag cleared, verticalVelocity and isJumping unchanged), so that no
\* later tick honours it: isJumping turns true in no other step.
C8_JumpHonouredInPreSimulationOnGround ==
    [][/\ Jump =>
             /\ PENDING_FLAG_JUMP \in cc'.pendingFlags
             /\ cc'.verticalVelocity = cc.verticalVelocity
             /\ cc'.isJumping = cc.isJumping
       /\ (/\ PreSimulation
           /\ cc.enabled /\ cc.dynamicsWorld # NULL
           /\ PENDING_FLAG_JUMP \in cc.pendingFlags) =>
             /\ PENDING_FLAG_JUMP \notin cc'.pendingFlags
             /\ IF cc.isOnGround
                THEN cc'.verticalVelocity = cc.jumpSpeed /\ cc'.isJumping
                ELSE /\ cc'.verticalVelocity = cc.verticalVelocity
                     /\ cc'.isJumping = cc.isJumping
       /\ (~cc.isJumping /\ cc'.isJumping) =>
             /\ PreSimulation
             /\ PENDING_FLAG_JUMP \in cc.pendingFlags
             /\ cc.isOnGround]_vars

\* preSimulation has returned, having begun a jump: the request is consumed, the
\* controller is jumping at jumpSpeed
C8_Witness ==
    /\ pc = "simulate"
    /\ frame.steps = 0
    /\ jumpBegan + frame.dt * 1000 = now
    /\ cc.isJumping
    /\ cc.verticalVelocity = cc.jumpSpeed
    /\ PENDING_FLAG_JUMP \notin cc.pendingFlags

-----------------------------------------------------------------------------
(* C9, C10: from jump to hover *)

\* C9 as stated: jump() called while the controller is jumping and not hovering
\* sets isHovering exactly when less than 1 second has elapsed since the jump
\* began; when 1 second or more has elapsed, it leaves isHovering unchanged.
C9_HoverWithinASecondOfJumpBegin ==
    [][(Jump /\ cc.isJumping /\ ~cc.isHovering) =>
          cc'.isHovering = (now - jumpBegan < 1000000)]_vars

\* C9 as amended: jump() called while the controller is jumping and not hovering
\* sets isHovering exactly when less than 1 second has elapsed since the time
\* _jumpToHoverStart holds, and leaves it unchanged otherwise; _jumpToHoverStart
\* is 0 until it is set, by each jump() call made while the controller is neither
\* hovering nor jumping, to the time of the call.
C9_HoverWithinASecondOfJumpToHoverStart ==
    [][/\ (Jump /\ cc.isJumping /\ ~cc.isHovering) =>
             cc'.isHovering = (now - cc.jumpToHoverStart < 1000000)
       /\ (Jump /\ ~cc.isJumping /\ ~cc.isHovering) => cc'.jumpToHoverStart = now
       /\ cc'.jumpToHoverStart # cc.jumpToHoverStart =>
             (Jump /\ ~cc.isJumping /\ ~cc.isHovering)]_vars

\* jump() has been called on a jumping controller that was not hovering, a second
\* or more after the time in _jumpToHoverStart: it is still not hovering
C9_Witness ==
    /\ lastCall = "jump"
    /\ cc.isJumping
    /\ ~cc.isHovering
    /\ now - cc.jumpToHoverStart >= 1000000

\* C10: with jump() called on every tick from a grounded controller that is not
\* hovering, the jump() call that makes the controller hover comes when the jump
\* key has been held, and the jump has lasted, for at least 1 second.
C10_NoHoverBeforeASecondOfHolding ==
    [][(JumpThenPreSimulation /\ cc.isJumping /\ ~cc.isHovering /\ cc'.isHovering) =>
          now - jumpBegan >= 1000000]_vars

-----------------------------------------------------------------------------
(* C11: the disabled controller *)

\* C11: while the controller is disabled, preSimulation, preStep, playerStep and
\* postSimulation leave the controller (its positions, velocities, flags and the
\* ghost object's transform) and the avatar's position and orientation unchanged.
C11_DisabledPhasesAreNoOps ==
    [][(~cc.enabled /\ (PreSimulation \/ PreStep \/ PlayerStep \/ PostSimulation))
          => (cc' = cc /\ avatar' = avatar)]_vars

\* the dynamics world has stepped a disabled controller that is still enrolled and
\* that has landed before: preStep and playerStep have returned
C11_Witness ==
    /\ ~cc.enabled
    /\ cc.dynamicsWorld # NULL
    /\ pc = "simulate"
    /\ frame.steps = 1
    /\ lastCall = "playerStep"
    /\ cc.lastStepUp > 0

-----------------------------------------------------------------------------
(* C12: the removal of a disabled controller *)

-----------------------------------------------------------------------------
(* C13: the controller right after its construction *)

\* C13 as stated: right after construction the controller is disabled and the
\* UPDATE_SHAPE request is still pending, and no shape has been built.
C13_ShapeUpdatePendingAfterConstruction ==
    lastCall = "CharacterController" =>
        /\ ~cc.enabled
        /\ PENDING_FLAG_UPDATE_SHAPE \in cc.pendingFlags
        /\ ~cc.convexShape.exists

\* C13 as amended: right after construction the controller is disabled and the
\* UPDATE_SHAPE request is not pending any more: the constructor has called
\* updateShapeIfNecessary, which has built the capsule shape when the box scale it
\* found gives a positive radius.  From then on the UPDATE_SHAPE request is
\* consumed only by an updateShapeIfNecessary call.
C13_ConstructorConsumesShapeUpdate ==
    /\ [](lastCall = "CharacterController" =>
             /\ ~cc.enabled
             /\ PENDING_FLAG_UPDATE_SHAPE \notin cc.pendingFlags
             /\ cc.radius = capsuleRadius(cc.boxScale)
             /\ cc.convexShape.exists <=> cc.radius > 0)
    /\ [][(PENDING_FLAG_UPDATE_SHAPE \in cc.pendingFlags
           /\ PENDING_FLAG_UPDATE_SHAPE \notin cc'.pendingFlags) =>
             lastCall' = "updateShapeIfNecessary"]_vars

\* the controller right after a construction that has built its shape
C13_Witness ==
    /\ lastCall = "CharacterController"
    /\ cc.convexShape.exists
    /\ cc.ghostObject.exists
    /\ cc.radius > 0

-----------------------------------------------------------------------------
(* C14: the shape is not rebuilt while the controller is enrolled *)

\* C14: under the ticks of the owner, with setEnabled and setLocalBoundingBox calls
\* between the ticks, an updateShapeIfNecessary call that finds UPDATE_SHAPE pending
\* finds the controller outside any dynamics world, its ghost object in no dynamics
\* world, and REMOVE_FROM_SIMULATION not pending (its assertion holds).
C14_ShapeRebuiltOnlyWhenNotEnrolled ==
    /\ [][(OwnerUpdateShape /\ PENDING_FLAG_UPDATE_SHAPE \in cc.pendingFlags) =>
             /\ cc.dynamicsWorld = NULL
             /\ ~dw.ghost
             /\ PENDING_FLAG_REMOVE_FROM_SIMULATION \notin cc.pendingFlags]_vars
    /\ [](~cc.assertFailed /\ ~dw.dangling)

\* the owner has removed an enrolled, enabled controller and then rebuilt its
\* shape: the controller waits for its addition
C14_Witness ==
    /\ pc = "ownerAdd"
    /\ lastCall = "setDynamicsWorld(NULL);updateShapeIfNecessary(pending)"
    /\ cc.enabled
    /\ needsAddition(cc)
    /\ cc.convexShape.exists
    /\ cc.dynamicsWorld = NULL
    /\ dw.actions = 0


\* whether the character, where it is, interpenetrates a contact that
\* recoverFromPenetration uses: a contact with response and negative separation
\* that is walkable or not below lastStepUp
C15_Penetrating ==
    \E contacts \in Manifolds(dw.scene, avatar.orientation, cc) :
        \E i \in 1..Len(contacts) :
            LET k == contacts[i]
                n == IF k.body0IsGhost THEN k.normalWorldOnB
                     ELSE VScale(k.normalWorldOnB, -1)
            IN  /\ k.response
                /\ k.distance < 0
                /\ \/ VDot(n, cc.currentUp) * 1000 >= cc.maxSlopeCosine * NormalScale
                   \/ collisionHeight(cc, cc.ghostObject.origin, k) >= cc.lastStepUp

\* C15, as stated: when preStep returns on an enabled controller, the character
\* interpenetrates no used contact, however deep it was at first.
C15_NoPenetrationAfterPreStep ==
    (pc = "playerStep" /\ cc.enabled) => ~C15_Penetrating

\* C15, amended: when preStep returns on an enabled controller, either the
\* character interpenetrates no used contact, or recoverFromPenetration has been
\* called 5 times in this preStep (and the character may still interpenetrate).
C15_NoPenetrationOrCapReached ==
    (pc = "playerStep" /\ cc.enabled) => (~C15_Penetrating \/ frame.loops = 5)

\* preStep has returned after 5 calls of recoverFromPenetration, each of which
\* found a penetration, and the character still interpenetrates the floor
C15_Witness ==
    /\ pc = "playerStep"
    /\ cc.enabled
    /\ frame.loops = 5
    /\ frame.penetration
    /\ C15_Penetrating


\* the contacts of character c, where it is, that recoverFromPenetration uses;
\* in the scenes of SpecRecover they are all walkable
C16_UsedContacts(c) ==
    LET contacts == CHOOSE cs \in Manifolds(dw.scene, avatar.orientation, c) : TRUE
    IN  { contacts[i] : i \in { j \in 1..Len(contacts) :
                                  contacts[j].response /\ contacts[j].distance < 0 } }

\* the maximum penetration depth (mm) of character c, 0 when it penetrates nothing
C16_MaxDepth(c) ==
    LET depths == { -k.distance : k \in C16_UsedContacts(c) }
    IN  IF depths = {} THEN 0 ELSE CHOOSE d \in depths : \A e \in depths : e <= d

\* the normal of contact k that points to the character
C16_Normal(k) == IF k.body0IsGhost THEN k.normalWorldOnB ELSE VScale(k.normalWorldOnB, -1)

C16_Cross(a, b) == a.x * b.y - a.y * b.x

\* whether the displacement d is a sum of positive multiples of the normals (one
\* normal, or two that are not parallel)
C16_PositiveCombination(d, normals) ==
    \/ \E n \in normals :
          /\ normals = {n}
          /\ C16_Cross(d, n) = 0
          /\ VDot(d, n) > 0
    \/ \E n1, n2 \in normals :
          /\ normals = {n1, n2}
          /\ C16_Cross(n1, n2) > 0
          /\ C16_Cross(n1, d) > 0
          /\ C16_Cross(d, n2) > 0

\* C16: each call of recoverFromPenetration that finds a penetration (there are at
\* most 5 in a preStep) leaves the maximum penetration depth of the walkable
\* contacts strictly smaller than it found it, and moves the character by a sum of
\* positive multiples of the normals of the contacts it used.
C16_RecoveryConverges ==
    /\ [][(RecoverFromPenetration /\ frame'.penetration) =>
             /\ C16_MaxDepth(cc') < C16_MaxDepth(cc)
             /\ C16_PositiveCombination(VSub(cc'.currentPosition, cc.ghostObject.origin),
                                        { C16_Normal(k) : k \in C16_UsedContacts(cc) })
             /\ frame'.loops <= 5]_vars

\* the fifth call of a preStep has pushed a character out of the floor and the slope
\* of the pit a little more, and it is still inside both
C16_Witness ==
    /\ dw.scene = "pit"
    /\ pc = "playerStep"
    /\ frame.loops = 5
    /\ frame.penetration
    /\ Len(frame.contacts) = 2
    /\ Cardinality(C16_UsedContacts(cc)) = 2
    /\ C16_MaxDepth(cc) > 0


\* the order of the phases of a tick of an enabled controller: preStep's recovery,
\* then playerStep's scanDown, stepUp, stepForward (with its sweeps) and stepDown,
\* none left out and none made twice
C17_PhaseOrder ==
    [][(cc.enabled /\ pc' # pc) =>
          <<pc, pc'>> \in { <<"idle", "simulate">>, <<"simulate", "recover">>,
                            <<"recover", "playerStep">>, <<"playerStep", "scanDown">>,
                            <<"scanDown", "stepUp">>, <<"stepUp", "stepForward">>,
                            <<"stepForward", "sweepForward">>,
                            <<"stepForward", "stepDown">>,
                            <<"sweepForward", "stepDown">>,
                            <<"stepDown", "simulate">>, <<"simulate", "idle">> }]_vars

\* C17, as stated: in a tick of an enabled controller the phases run in the order
\* recovery, scanDown, stepUp, stepForward, stepDown, each once, and the ghost
\* transform is written from currentPosition only after stepDown.
C17_GhostWrittenOnlyAfterStepDown ==
    /\ C17_PhaseOrder
    /\ [][(cc.enabled /\ pc # "idle"
           /\ cc'.ghostObject.origin # cc.ghostObject.origin) =>
             (pc = "stepDown" /\ cc'.ghostObject.origin = cc'.currentPosition)]_vars

\* C17, amended: in a tick of an enabled controller the phases run in the order
\* recovery, scanDown, stepUp, stepForward, stepDown, each once; the ghost
\* transform is written from currentPosition by the calls of recoverFromPenetration
\* of the recovery, and after that only after stepDown.
C17_GhostWrittenByRecoveryAndAfterStepDown ==
    /\ C17_PhaseOrder
    /\ [][(cc.enabled /\ pc # "idle"
           /\ cc'.ghostObject.origin # cc.ghostObject.origin) =>
             (pc \in {"recover", "stepDown"}
              /\ cc'.ghostObject.origin = cc'.currentPosition)]_vars
    /\ [][(cc.enabled /\ pc = "stepDown") =>
             cc'.ghostObject.origin = cc'.currentPosition]_vars

\* a tick is over in which the recovery has moved the character, stepUp has raised
\* it, and the ghost object is where stepDown has left the character
C17_Witness ==
    /\ cc.enabled
    /\ pc = "simulate"
    /\ frame.steps = 1
    /\ frame.loops > 0
    /\ cc.lastStepUp > 0
    /\ cc.ghostObject.origin = cc.currentPosition
    /\ cc.ghostObject.origin # VAdd(avatar.position,
                                    quatRotate(avatar.orientation, cc.shapeLocalOffset))


\* the vertical velocity (mm/s) that a step of dt ms makes of v0: relaxed by the
\* factor 1 - dt / 1 s when hovering, and else fallen by gravity * dt and clamped
C18_Velocity(v0, hovering, c, dt) ==
    LET fallen == v0 - (c.gravity * dt) \div 1000
    IN  IF hovering THEN DivT(v0 * (1000 - dt), 1000)
        ELSE IF fallen < -c.maxFallSpeed THEN -c.maxFallSpeed
        ELSE IF fallen > c.jumpSpeed THEN c.jumpSpeed
        ELSE fallen

\* C18, as stated: playerStep has relaxed verticalVelocity if the controller hovers
\* and else has subtracted gravity and clamped, and verticalOffset is
\* verticalVelocity * dt, for the hovering state of the tick, also when the tick's
\* scanDown has turned hovering on or off.
C18_FallVelocityFollowsHoverOfTick ==
    [][(ScanDown /\ cc.enabled) =>
          /\ cc'.verticalVelocity =
                C18_Velocity(frame.fallFrom, cc'.isHovering, cc, frame.dt)
          /\ cc'.verticalOffset = DivT(cc'.verticalVelocity * frame.dt, 1000)]_vars

\* C18, amended: playerStep relaxes verticalVelocity if the controller hovers when
\* playerStep is entered and else subtracts gravity and clamps, and verticalOffset
\* is verticalVelocity * dt; scanDown, which runs after that, changes neither,
\* also when it turns hovering on or off.
C18_FallVelocityFollowsHoverOnEntry ==
    /\ [][(PlayerStep /\ cc.enabled) =>
             /\ cc'.verticalVelocity =
                   C18_Velocity(cc.verticalVelocity, cc.isHovering, cc, frame.dt)
             /\ cc'.verticalOffset = DivT(cc'.verticalVelocity * frame.dt, 1000)
             /\ cc'.isHovering = cc.isHovering]_vars
    /\ [][(ScanDown /\ cc.enabled) =>
             /\ cc'.verticalVelocity = cc.verticalVelocity
             /\ cc'.verticalOffset = cc.verticalOffset]_vars

\* scanDown has turned hovering off in a tick whose playerStep had found the
\* controller hovering and rising, and had relaxed its velocity without gravity
C18_Witness ==
    /\ cc.enabled
    /\ pc = "stepUp"
    /\ ~cc.isHovering
    /\ frame.fallFrom > 0
    /\ cc.verticalVelocity = DivT(frame.fallFrom * (1000 - frame.dt), 1000)
    /\ cc.verticalVelocity # C18_Velocity(frame.fallFrom, FALSE, cc, frame.dt)


\* C19: a controller that is enabled, enrolled, not jumping, with no vertical and no
\* walk velocity, of radius 300 and halfHeight 600 under gravity 5000, which starts
\* 10 mm over a flat floor, is on the ground after one playerStep of 1/60 s, with
\* verticalVelocity 0, and rests on the floor: not below it, and no higher over it
\* than it started (not left lifted by the step up).
C19_LandsOnFloor ==
    (/\ dw.scene = "embedded"
     /\ now = ClockStart + SixtiethMs * 1000
     /\ pc = "simulate"
     /\ frame.steps = 1) =>
        /\ cc.isOnGround
        /\ cc.verticalVelocity = 0
        /\ planeDistance(avatar.orientation, cc, cc.currentPosition, N_UP) \in 0..10
        /\ cc.ghostObject.origin = cc.currentPosition

\* the first playerStep, of 1/60 s, of the controller of C19 has returned: stepUp had
\* lifted the character by the step-up height and stepDown's second sweep has found
\* the floor
C19_Witness ==
    /\ dw.scene = "embedded"
    /\ now = ClockStart + SixtiethMs * 1000
    /\ pc = "simulate"
    /\ frame.steps = 1
    /\ frame.dt = SixtiethMs
    /\ cc.radius = 300 /\ cc.halfHeight = 600 /\ cc.gravity = DEFAULT_GRAVITY
    /\ cc.walkDirection = ZeroVec
    /\ cc.lastStepUp = cc.stepUpHeight
    /\ frame.sweep2 /\ frame.callback2.hasHit
    /\ cc.isOnGround

\* C20, as stated: the time dtMoving by which playerStep scales walkDirection is
\* between 0 and dt, and not longer than the interval pending when playerStep is
\* entered; so the character is never moved against its walk direction.
C20_MovingTimeWithinInterval ==
    (pc = "stepForward" /\ cc.enabled) =>
        /\ 0 <= dtMoving(cc, frame.dt)
        /\ dtMoving(cc, frame.dt) <= frame.dt
        /\ dtMoving(cc, frame.dt) <= cc.velocityTimeInterval
        /\ VDot(VDivT(VScale(cc.walkDirection, dtMoving(cc, frame.dt)), 1000),
                cc.walkDirection) >= 0


\* C21: when updateShapeIfNecessary processes a bounding box whose radius is not
\* positive, the controller is left without ghost object and without shape, and
\* UPDATE_SHAPE is cleared; a setDynamicsWorld(world) call on a controller without
\* ghost object adds no collision object and no action to the world, and a
\* controller that is out of the world stays out of it.
C21_DegenerateShapeIsNotEnrolled ==
    /\ [][(UpdateShapeIfNecessary /\ PENDING_FLAG_UPDATE_SHAPE \in cc.pendingFlags
           /\ capsuleRadius(cc.boxScale) <= 0) =>
             /\ ~cc'.ghostObject.exists
             /\ ~cc'.convexShape.exists
             /\ PENDING_FLAG_UPDATE_SHAPE \notin cc'.pendingFlags]_vars
    /\ [][(SetDynamicsWorld /\ lastCall' = "setDynamicsWorld(world)"
           /\ ~cc.ghostObject.exists) =>
             /\ dw' = dw
             /\ cc.dynamicsWorld = NULL => cc'.dynamicsWorld = NULL]_vars

\* setDynamicsWorld(world) has been called for an enabled controller that asks to be
\* added, whose updateShapeIfNecessary has processed the box of radius 0: it is
\* not enrolled, and the world holds nothing of it
C21_Witness ==
    /\ lastCall = "setDynamicsWorld(world)"
    /\ cc.enabled
    /\ needsAddition(cc)
    /\ capsuleRadius(cc.boxScale) = 0
    /\ PENDING_FLAG_UPDATE_SHAPE \notin cc.pendingFlags
    /\ ~cc.ghostObject.exists
    /\ ~cc.convexShape.exists
    /\ cc.dynamicsWorld = NULL
    /\ dw.actions = 0
    /\ ~dw.ghost


\* C22: a preStep of an enabled controller calls recoverFromPenetration at most 5
\* times: a call is made only after fewer than 5 calls that all returned true, the
\* loop ends with the first call that returns false and with the fifth call, so
\* it always ends; touchingContact is afterwards true exactly when the first call
\* returned true.
C22_RecoveryLoopIsCapped ==
    /\ [][RecoverFromPenetration =>
             /\ frame.loops <= 4
             /\ frame'.loops = IF frame'.penetration THEN frame.loops + 1 ELSE frame.loops
             /\ (pc' = "playerStep") = (~frame'.penetration \/ frame'.loops = 5)
             /\ (pc' # "playerStep") => pc' = "recover"
             /\ cc'.touchingContact =
                   (IF frame.loops = 0 THEN frame'.penetration ELSE cc.touchingContact)]_vars
    /\ [][PreStep => (frame'.loops = 0 /\ (cc.enabled => ~cc'.touchingContact))]_vars
    /\ (pc = "recover") ~> (pc = "playerStep")

\* a preStep has ended with the third call of recoverFromPenetration, the first to
\* return false, and touchingContact is true
C22_Witness ==
    /\ cc.enabled
    /\ pc = "playerStep"
    /\ lastCall = "preStep"
    /\ frame.loops = 2
    /\ ~frame.penetration
    /\ cc.touchingContact


C24_EntryMove == VDivT(VScale(cc.walkDirection, dtMoving(cc, frame.dt)), 1000)

C24_StepForwardEndsWithItsMargin ==
    /\ [][StepForward =>
            /\ frame'.maxIter = MAX_FORWARD_ITERATIONS
            /\ frame'.margin = cc.convexShape.margin
            /\ (VLength2Capped(C24_EntryMove) <= MIN_STEP_DISTANCE_SQUARED
                    => pc' = "stepDown" /\ cc'.currentPosition = cc.currentPosition)
            /\ (pc' = "stepDown" => cc'.convexShape.margin = cc.convexShape.margin)
            /\ (pc' = "sweepForward"
                    => cc'.convexShape.margin = cc.convexShape.margin + cc.addedMargin)]_vars
    /\ [][SweepForward =>
            /\ frame.maxIter \in 1..MAX_FORWARD_ITERATIONS
            /\ frame'.maxIter = frame.maxIter - 1
            /\ frame'.margin = frame.margin
            /\ (frame'.maxIter = 0 => pc' = "stepDown")
            /\ (pc' = "stepDown" => cc'.convexShape.margin = frame.margin)
            /\ (pc' = "sweepForward"
                    => cc'.convexShape.margin = frame.margin + cc.addedMargin)]_vars
    /\ [](pc \in {"stepDown", "simulate", "idle", "recover", "playerStep",
                   "scanDown", "stepUp", "stepForward"}
            => cc.convexShape.margin \in {0, SHAPE_MARGIN})
    /\ ((pc = "sweepForward") ~> (pc = "stepDown"))

\* stepForward left after its tenth sweep, every one of them deflected, with the
\* margin back
C24_Witness ==
    /\ pc = "stepDown"
    /\ frame.maxIter = 0
    /\ frame.callback.hasHit
    /\ cc.convexShape.margin = frame.margin
    /\ cc.convexShape.margin = SHAPE_MARGIN

\* C25: whenever one of stepDown's sweeps hits, the first or the second, stepDown
\* ends with no vertical velocity, no vertical offset, not jumping and on the
\* ground; and as stepDown sets isOnGround nowhere else, after any stepDown a
\* controller on the ground is not jumping and has no vertical velocity, and it is
\* on the ground exactly when a sweep hit.
C25_SweepHit == frame'.callback.hasHit \/ (frame'.sweep2 /\ frame'.callback2.hasHit)

C25_StepDownHitLands ==
    [][StepDown =>
        /\ (C25_SweepHit => /\ cc'.verticalVelocity = 0
                            /\ cc'.verticalOffset = 0
                            /\ ~cc'.isJumping
                            /\ cc'.isOnGround)
        /\ (cc'.isOnGround => ~cc'.isJumping /\ cc'.verticalVelocity = 0)
        /\ (cc'.isOnGround <=> C25_SweepHit)]_vars

\* a jump begun by this frame's preSimulation and ended by a hit of the first
\* sweep of its first stepDown
C25_Witness ==
    /\ pc = "simulate"
    /\ frame.steps = 1
    /\ frame.callback.hasHit
    /\ jumpBegan > 0
    /\ jumpBegan + frame.dt * 1000 = now
    /\ cc.isOnGround
    /\ ~cc.isJumping
    /\ cc.verticalVelocity = 0

\* C26: in stepDown, when the controller is jumping and the first sweep finds
\* nothing, no second sweep is made, currentPosition moves by the whole
\* (verticalVelocity * dt - lastStepUp) * up, isOnGround is false, and isJumping,
\* verticalVelocity and lastStepUp are as they were; the second sweep, which is
\* stepDownHeight long and starts where the first ended, is made only when the
\* first found nothing and the controller is not jumping.
C26_Displacement ==
    VScale(cc.currentUp, DivT(cc.verticalVelocity * frame.dt, 1000) - cc.lastStepUp)

C26_JumpFallsFreely ==
    [][StepDown =>
        /\ (cc.isJumping /\ ~frame'.callback.hasHit
               => /\ ~frame'.sweep2
                  /\ cc'.currentPosition = VAdd(cc.currentPosition, C26_Displacement)
                  /\ cc'.targetPosition = cc'.currentPosition
                  /\ ~cc'.isOnGround
                  /\ cc'.isJumping
                  /\ cc'.verticalVelocity = cc.verticalVelocity
                  /\ cc'.lastStepUp = cc.lastStepUp)
        /\ (frame'.sweep2
               => /\ ~frame'.callback.hasHit
                  /\ ~cc.isJumping
                  /\ cc'.targetPosition =
                        VAdd(VAdd(cc.currentPosition, C26_Displacement),
                             VScale(cc.currentUp, -cc.stepDownHeight)))]_vars

\* a jumping controller whose first sweep found nothing: moved, still jumping and
\* rising, off the ground, the step up not taken back to zero
C26_Witness ==
    /\ pc = "simulate"
    /\ frame.steps = 1
    /\ ~frame.callback.hasHit
    /\ ~frame.sweep2
    /\ cc.isJumping
    /\ cc.verticalVelocity > 0
    /\ cc.lastStepUp > 0
    /\ ~cc.isOnGround
    /\ cc.currentPosition = cc.targetPosition

\* C27: setDynamicsWorld consumes the pending requests. After setDynamicsWorld(NULL)
\* the controller has no dynamics world, its ghost object is in none, and
\* needsRemoval() is false; after setDynamicsWorld(world) on a controller with a
\* ghost object and no UPDATE_SHAPE pending the controller has that world and
\* needsAddition() is false; and setDynamicsWorld called again with the same
\* argument changes neither the controller (its world, its flags) nor the world's
\* lists. As long as no updateShapeIfNecessary call has broken its assertion (the
\* shape rebuilt under the simulation), the world's lists agree: after the first
\* call the controller is in none of them, after the second its ghost object and
\* itself are in them once.
C27_After(world) == setDynamicsWorld(cc, world)

C27_WorldAfter(world) == worldAfterSetDynamicsWorld(cc, dw, world)

C27_SetDynamicsWorldConsumesRequests ==
    /\ [][SetDynamicsWorld /\ lastCall' = "setDynamicsWorld(NULL)" =>
            /\ cc'.dynamicsWorld = NULL
            /\ ~dw'.ghost
            /\ ~needsRemoval(cc')
            /\ (~cc.assertFailed => dw'.actions = 0)]_vars
    /\ [][/\ SetDynamicsWorld
          /\ lastCall' = "setDynamicsWorld(world)"
          /\ cc.ghostObject.exists
          /\ PENDING_FLAG_UPDATE_SHAPE \notin cc.pendingFlags
          => /\ cc'.dynamicsWorld = WORLD
             /\ ~needsAddition(cc')
             /\ (~cc.assertFailed => dw'.ghost /\ dw'.actions = 1)]_vars
    /\ [](\A world \in {NULL, WORLD} :
            /\ setDynamicsWorld(C27_After(world), world) = C27_After(world)
            /\ worldAfterSetDynamicsWorld(C27_After(world), C27_WorldAfter(world), world)
                  = C27_WorldAfter(world))

\* an enabled controller just enrolled by setDynamicsWorld(world): in the world
\* once, nothing pending (a second call finds _dynamicsWorld == world)
C27_Witness ==
    /\ lastCall = "setDynamicsWorld(world)"
    /\ cc.enabled
    /\ cc.ghostObject.exists
    /\ cc.dynamicsWorld = WORLD
    /\ cc.pendingFlags = {}
    /\ dw.ghost
    /\ dw.actions = 1
    /\ setDynamicsWorld(cc, WORLD) = cc

\* C28: a setLocalBoundingBox call whose box gives the radius and halfHeight the
\* controller has (those of its shape, when it has one) changes no pending flag; a
\* call whose box gives others sets UPDATE_SHAPE, sets REMOVE_FROM_SIMULATION if
\* and only if the controller has a dynamics world, sets ADD_TO_SIMULATION if and
\* only if the controller is enabled, and clears nothing; the halfHeight it works
\* out, like the controller's own, is never below MIN_HALF_HEIGHT. Checked for the
\* calls made and, in every state, for every box of C28_Boxes, among them a box
\* that differs from the cube's only in a height that the clamp hides.
C28_Boxes == BoxScales \cup {[x |-> 800, y |-> 600, z |-> 800],
                             [x |-> 600, y |-> 2000, z |-> 600]}

C28_Set(c, after) == after.pendingFlags \ c.pendingFlags

C28_CallIsRight(c, corner, scale) ==
    LET after == setLocalBoundingBox(c, corner, scale)
        same == /\ capsuleRadius(scale) = c.radius
                /\ capsuleHalfHeight(scale) = c.halfHeight
    IN  /\ capsuleHalfHeight(scale) >= MIN_HALF_HEIGHT
        /\ c.pendingFlags \subseteq after.pendingFlags
        /\ (same => after.pendingFlags = c.pendingFlags)
        /\ (~same =>
              /\ PENDING_FLAG_UPDATE_SHAPE \in after.pendingFlags
              /\ (PENDING_FLAG_REMOVE_FROM_SIMULATION \in after.pendingFlags
                     <=> c.dynamicsWorld # NULL)
              /\ (c.enabled => PENDING_FLAG_ADD_TO_SIMULATION \in after.pendingFlags)
              /\ (~c.enabled => PENDING_FLAG_ADD_TO_SIMULATION \notin C28_Set(c, after))
              /\ C28_Set(c, after) \subseteq {PENDING_FLAG_UPDATE_SHAPE,
                                               PENDING_FLAG_REMOVE_FROM_SIMULATION,
                                               PENDING_FLAG_ADD_TO_SIMULATION})

C28_BoundingBoxRequests ==
    /\ [](\A corner \in Corners, scale \in C28_Boxes : C28_CallIsRight(cc, corner, scale))
    /\ [][SetLocalBoundingBox =>
            \E corner \in Corners :
               /\ cc' = setLocalBoundingBox(cc, corner, cc'.boxScale)
               /\ C28_CallIsRight(cc, corner, cc'.boxScale)
               /\ cc'.radius = cc.radius
               /\ cc'.halfHeight = cc.halfHeight]_vars
    /\ [](cc.halfHeight >= MIN_HALF_HEIGHT)
    /\ [](cc.convexShape.exists => cc.radius > 0)

\* an enrolled, enabled controller with the cube's capsule built and nothing
\* pending has been given the tall box: all three requests are pending
C28_Witness ==
    /\ lastCall = "setLocalBoundingBox"
    /\ cc.enabled
    /\ cc.dynamicsWorld = WORLD
    /\ cc.convexShape.exists
    /\ capsuleHalfHeight(cc.boxScale) # cc.halfHeight
    /\ cc.pendingFlags = {PENDING_FLAG_UPDATE_SHAPE,
                          PENDING_FLAG_REMOVE_FROM_SIMULATION,
                          PENDING_FLAG_ADD_TO_SIMULATION}

\* C29: recoverFromPenetration returns true if and only if it used a contact; a
\* contact is used when its separation is negative, the objects of its pair have
\* contact response, and it is not a non-walkable contact lower than lastStepUp (a
\* walkable one is used at any height); every used contact moves currentPosition
\* by normal * |dist| * 0.2; and when no contact is used the ghost transform is as
\* it was. currentPosition starts from the ghost object's origin, where
\* preSimulation has put the avatar, so with no contact used it ends there, which
\* is not always where it was before the call.
C29_Walkable(k) ==
    VDot(contactNormal(k), cc.currentUp) * 1000 >= cc.maxSlopeCosine * NormalScale

C29_Used(k) ==
    /\ k.distance < 0
    /\ k.response
    /\ ~(~C29_Walkable(k) /\ collisionHeight(cc, cc.ghostObject.origin, k) < cc.lastStepUp)

C29_Push(k) == VDivT(VScale(contactNormal(k), (-k.distance) * 2), 10 * NormalScale)

RECURSIVE C29_Moved(_, _)
C29_Moved(contacts, i) ==
    IF i > Len(contacts) THEN Vec(0, 0)
    ELSE IF C29_Used(contacts[i])
         THEN VAdd(C29_Push(contacts[i]), C29_Moved(contacts, i + 1))
         ELSE C29_Moved(contacts, i + 1)

C29_AnyUsed(contacts) == \E i \in 1..Len(contacts) : C29_Used(contacts[i])

\* C29 as stated: with no contact used the call leaves currentPosition, too, as
\* it was
C29_NothingUsedNothingMoved ==
    [][RecoverFromPenetration /\ ~C29_AnyUsed(frame'.contacts) =>
          /\ cc'.currentPosition = cc.currentPosition
          /\ cc'.ghostObject = cc.ghostObject]_vars

C29_RecoveryUsesContacts ==
    [][RecoverFromPenetration =>
          /\ frame'.penetration <=> C29_AnyUsed(frame'.contacts)
          /\ cc'.currentPosition =
                VAdd(cc.ghostObject.origin, C29_Moved(frame'.contacts, 1))
          /\ cc'.ghostObject =
                [cc.ghostObject EXCEPT !.origin = cc'.currentPosition]
          /\ (\A i \in 1..Len(frame'.contacts) :
                 LET k == frame'.contacts[i]
                 IN  k.distance < 0 /\ k.response /\ C29_Walkable(k) => C29_Used(k))
          /\ (~C29_AnyUsed(frame'.contacts) =>
                 /\ cc'.ghostObject = cc.ghostObject
                 /\ cc'.currentPosition = cc.ghostObject.origin)]_vars

\* a call that used the floor's contact and not the low contact of the wall: the
\* character has moved up by a fifth of the floor's depth and not sideways
C29_Witness ==
    /\ pc \in {"recover", "playerStep"}
    /\ frame.penetration
    /\ Len(frame.contacts) = 2
    /\ cc.lastStepUp > 0
    /\ cc.floorNormal = VScale(cc.currentUp, NormalScale)
    /\ cc.currentPosition = cc.ghostObject.origin
    /\ cc.touchingContact

\* C30: the step-down callback rejects a hit exactly when the hit object is the
\* character's own ghost object, or has no contact response, or the hit normal is
\* non-walkable (normal . up < maxSlopeCosine) and either has a positive dot
\* product with the walk direction or the hit lies higher than the max-angle
\* limit. So a walkable hit on another object with contact response is never
\* rejected, and with no walk direction nothing is rejected for its push
\* direction. Checked for every hit the world can offer to the two sweeps of every
\* stepDown, and for the hit stepDown ends up with.
C30_NonWalkable(k) ==
    VDot(k.hitNormal, cc.currentUp) * 1000 < cc.maxSlopeCosine * NormalScale

C30_Pushes(k) == VDot(k.hitNormal, cc.walkDirection) > 0

C30_TooHigh(k, step) ==
    LET fractionalStep == VDivT(VScale(step, k.hitFraction), FractionScale)
        localHit == VAdd(VSub(k.hitPoint, cc.currentPosition), fractionalStep)
        side == Vec(cc.radius, -(cc.halfHeight - ISqrt(VLength2(step))
                                   + VDot(fractionalStep, cc.currentUp)))
    IN  angleGreater(localHit, side, VScale(cc.currentUp, -1))

C30_Rejected(k, step) ==
    \/ k.object = "me"
    \/ k.object = "sensor"
    \/ C30_NonWalkable(k) /\ (C30_Pushes(k) \/ C30_TooHigh(k, step))

C30_Accepts(k, step) ==
    stepDownAccepts(k, cc.currentUp, cc.currentPosition, step, cc.walkDirection,
                    cc.maxSlopeCosine, cc.radius, cc.halfHeight)

C30_Sweeps ==
    LET step == stepDownStep(cc, frame.dt)
        step2 == stepDownStep2(cc)
    IN  {<<k, step>> : k \in UNION DownOffers(dw.scene, avatar.orientation, cc,
                                               cc.currentPosition, step)}
        \cup {<<k, step2>> : k \in UNION DownOffers(dw.scene, avatar.orientation, cc,
                                                    VAdd(cc.currentPosition, step), step2)}

C30_Result(callback, s) ==
    /\ callback.closestHitFraction = s[1].hitFraction
    /\ callback.hitNormalWorld = s[1].hitNormal
    /\ callback.hitPointWorld = s[1].hitPoint

C30_StepDownCallbackRejections ==
    /\ [](pc = "stepDown" =>
            \A s \in C30_Sweeps :
               /\ C30_Accepts(s[1], s[2]) <=> ~C30_Rejected(s[1], s[2])
               /\ (s[1].object = "body" /\ ~C30_NonWalkable(s[1]) => C30_Accepts(s[1], s[2]))
               /\ (cc.walkDirection = Vec(0, 0) /\ ~C30_Accepts(s[1], s[2]) =>
                      \/ s[1].object \in {"me", "sensor"}
                      \/ C30_NonWalkable(s[1]) /\ C30_TooHigh(s[1], s[2])))
    /\ [][StepDown =>
            /\ (frame'.callback.hasHit =>
                   \E s \in C30_Sweeps :
                      C30_Result(frame'.callback, s) /\ ~C30_Rejected(s[1], s[2]))
            /\ (frame'.callback2.hasHit =>
                   \E s \in C30_Sweeps :
                      C30_Result(frame'.callback2, s) /\ ~C30_Rejected(s[1], s[2]))]_vars

\* at the ledge, walking: the sweep has ended on the floor at its full length,
\* the nearer hit on the non-walkable face beside the character having been
\* rejected
C30_Witness ==
    /\ pc = "simulate"
    /\ dw.scene = "ledge"
    /\ cc.walkDirection # Vec(0, 0)
    /\ frame.callback.hasHit
    /\ frame.callback.closestHitFraction = FractionScale
    /\ VDot(frame.callback.hitNormalWorld, cc.currentUp) = NormalScale

\* C31: the position postSimulation writes to the avatar, before the shape's
\* offset is taken off, is never farther from the position the last preSimulation
\* recorded than max(5 m/s, 2 * |walkDirection + verticalVelocity * up|) * stepDt,
\* stepDt being the time of the playerStep calls since that preSimulation; so
\* with no playerStep in between the avatar stays where preSimulation found it.
\* A postSimulation on a disabled controller writes nothing.
C31_Written == VAdd(avatar'.position, quatRotate(avatar'.orientation, cc.shapeLocalOffset))

C31_Speed == 2 * VLength(VAdd(cc.walkDirection, VScale(cc.currentUp, cc.verticalVelocity)))

C31_MaxStepLength == DivT((IF C31_Speed > 5000 THEN C31_Speed ELSE 5000) * cc.stepDt, 1000)

C31_AvatarStepIsCapped ==
    /\ [][PostSimulation =>
            IF cc.enabled /\ cc.ghostObject.exists
            THEN /\ VLength(VSub(C31_Written, cc.lastPosition)) <= C31_MaxStepLength
                 /\ (cc.stepDt = 0 =>
                        /\ C31_Written = cc.lastPosition
                        /\ avatar' = avatar)
                 /\ (VLength(VSub(cc.ghostObject.origin, cc.lastPosition))
                        <= C31_MaxStepLength => C31_Written = cc.ghostObject.origin)
            ELSE avatar' = avatar]_vars
    /\ [][PreSimulation /\ cc.enabled /\ cc.dynamicsWorld # NULL =>
            /\ cc'.stepDt = 0
            /\ cc'.lastPosition = cc'.ghostObject.origin]_vars
    /\ [][StepForward => cc'.stepDt = cc.stepDt + frame.dt]_vars

\* a frame whose step was longer than the cap: the avatar has been put short of
\* the ghost object
C31_Witness ==
    /\ lastCall = "postSimulation"
    /\ cc.enabled
    /\ cc.stepDt > 0
    /\ VLength(VSub(cc.ghostObject.origin, cc.lastPosition)) >
          DivT((IF 2 * VLength(VAdd(cc.walkDirection,
                                    VScale(cc.currentUp, cc.verticalVelocity))) > 5000
                THEN 2 * VLength(VAdd(cc.walkDirection,
                                      VScale(cc.currentUp, cc.verticalVelocity)))
                ELSE 5000) * cc.stepDt, 1000)
    /\ VAdd(avatar.position, quatRotate(avatar.orientation, cc.shapeLocalOffset))
          # cc.ghostObject.origin

\* C32: stepForward changes currentPosition only by putting it on the target of a
\* sweep that found nothing, which ends the loop. A sweep that hits leaves it
\* alone, so when every sweep of a call has hit, up to the cap, or the step left
\* after a hit is not longer than MIN_STEP_DISTANCE_SQUARED, or no sweep is made,
\* stepForward ends with currentPosition where stepUp had put it: the ghost
\* object's origin raised by lastStepUp.
C32_Entry == VAdd(cc.ghostObject.origin, VScale(cc.currentUp, cc.lastStepUp))

C32_ForwardCommitsOnlyFreeSweeps ==
    /\ [][StepForward => cc'.currentPosition = cc.currentPosition]_vars
    /\ [][SweepForward =>
            IF frame'.callback.hasHit
            THEN cc'.currentPosition = cc.currentPosition
            ELSE cc'.currentPosition = cc.targetPosition /\ pc' = "stepDown"]_vars
    /\ [](pc \in {"stepForward", "sweepForward"} => cc.currentPosition = C32_Entry)
    /\ [](pc = "stepDown" /\ (frame.callback.hasHit \/ frame.maxIter = MAX_FORWARD_ITERATIONS)
            => cc.currentPosition = C32_Entry)
    /\ [][SweepForward /\ frame'.callback.hasHit =>
            frame'.stepLength2 >= frame.stepLength2]_vars

\* every one of the ten sweeps of the walker at the wall has hit: the target has
\* been deflected and the character has not moved forward
C32_Witness ==
    /\ pc = "stepDown"
    /\ frame.maxIter = 0
    /\ frame.callback.hasHit
    /\ frame.stepLength2 > MIN_STEP_DISTANCE_SQUARED
    /\ cc.walkDirection # ZeroVec
    /\ cc.currentPosition = C32_Entry
    /\ cc.targetPosition # cc.currentPosition

\* C33: in every state reached by setEnabled, setLocalBoundingBox,
\* setDynamicsWorld and updateShapeIfNecessary calls, needsAddition() is true only
\* if the controller is enabled.
C33_OnlyEnabledAsksAddition == needsAddition(cc) => cc.enabled

\* C34: under the owner's ticks (if needsRemoval() then setDynamicsWorld(NULL);
\* updateShapeIfNecessary(); if needsAddition() then setDynamicsWorld(world)), with
\* a bounding box that gives a capsule, the lifecycle is quiescent one tick after
\* the last setEnabled or setLocalBoundingBox call and stays so: nothing of ADD,
\* REMOVE and UPDATE_SHAPE pending, and the controller in the world if and only
\* if it is enabled. Stated for the tick applied to every state between ticks
\* (one tick settles, a second changes nothing) and for the behaviours in which
\* the calls stop.
C34_Quiescent(c, w) ==
    /\ c.pendingFlags \cap {PENDING_FLAG_ADD_TO_SIMULATION,
                             PENDING_FLAG_REMOVE_FROM_SIMULATION,
                             PENDING_FLAG_UPDATE_SHAPE} = {}
    /\ (c.dynamicsWorld # NULL) <=> c.enabled
    /\ w.ghost <=> c.enabled
    /\ w.actions = IF c.enabled THEN 1 ELSE 0

C34_Tick(s) ==
    LET removed == IF needsRemoval(s.c)
                   THEN [c |-> setDynamicsWorld(s.c, NULL),
                         w |-> worldAfterSetDynamicsWorld(s.c, s.w, NULL)]
                   ELSE s
        shaped == [c |-> updateShapeIfNecessary(removed.c, avatar),
                   w |-> worldAfterUpdateShape(removed.c, removed.w)]
    IN  IF needsAddition(shaped.c)
        THEN [c |-> setDynamicsWorld(shaped.c, WORLD),
              w |-> worldAfterSetDynamicsWorld(shaped.c, shaped.w, WORLD)]
        ELSE shaped

\* the box has a width or a depth (its capsule then has a radius)
C34_HasCapsule == cc.boxScale.x # 0 \/ cc.boxScale.z # 0

C34_AvatarCall == SetEnabled \/ SetLocalBoundingBox

C34_OneTickSettles ==
    LET once == C34_Tick([c |-> cc, w |-> dw])
    IN  /\ C34_Quiescent(once.c, once.w)
        /\ C34_Tick(once) = once

C34_NowQuiescent == C34_Quiescent(cc, dw)

C34_OwnerSettlesLifecycle ==
    /\ [](C34_HasCapsule <=> capsuleRadius(cc.boxScale) > 0)
    /\ [](pc = "idle" /\ C34_HasCapsule => C34_OneTickSettles)
    /\ [][OwnerAddition /\ C34_HasCapsule => C34_Quiescent(cc', dw')]_vars
    /\ [][(OwnerRemoval \/ OwnerUpdateShape \/ OwnerAddition)
            /\ C34_HasCapsule /\ C34_Quiescent(cc, dw)
            => cc'.pendingFlags = cc.pendingFlags
               /\ cc'.dynamicsWorld = cc.dynamicsWorld
               /\ dw' = dw]_vars
    \* either the calls never stop, or the box is degenerate again and again, or
    \* the lifecycle ends quiescent for good
    /\ ([]<><<C34_AvatarCall>>_vars \/ []<>(~C34_HasCapsule) \/ <>[]C34_NowQuiescent)

\* an enabled controller whose box was changed while it was in the world has
\* been taken out, rebuilt and put back by one tick
C34_Witness ==
    /\ pc = "idle"
    /\ lastCall = "setDynamicsWorld(world)"
    /\ cc.enabled
    /\ cc.radius = capsuleRadius(cc.boxScale)
    /\ cc.radius = 400
    /\ C34_Quiescent(cc, dw)

\* a setDynamicsWorld(world) call that actually adds the ghost to the world
C35_Enrolls ==
    /\ SetDynamicsWorld
    /\ lastCall' = "setDynamicsWorld(world)"
    /\ cc.dynamicsWorld # WORLD
    /\ cc.ghostObject.exists

\* C35: every enrollment into a dynamics world discards a pending jump request,
\* zeroes verticalVelocity, verticalOffset, walkDirection and
\* velocityTimeInterval, clears isOnGround and isJumping and leaves isHovering
\* as it was; a request is pending only after a jump() call and a jump begins
\* only when preSimulation honours a pending request, so a jump() issued
\* before the enrollment never produces a jump after it
C35_EnrollmentDiscardsJump ==
    /\ [][C35_Enrolls
            => /\ cc'.dynamicsWorld = WORLD
               /\ dw'.actions > 0
               /\ PENDING_FLAG_JUMP \notin cc'.pendingFlags
               /\ cc'.verticalVelocity = 0
               /\ cc'.verticalOffset = 0
               /\ cc'.walkDirection = ZeroVec
               /\ cc'.velocityTimeInterval = 0
               /\ ~cc'.isOnGround
               /\ ~cc'.isJumping
               /\ cc'.isHovering = cc.isHovering
               /\ ~jumpHonoured(cc')]_vars
    /\ [][PENDING_FLAG_JUMP \notin cc.pendingFlags
            /\ PENDING_FLAG_JUMP \in cc'.pendingFlags => Jump]_vars
    /\ [][~cc.isJumping /\ cc'.isJumping
            => PreSimulation /\ jumpHonoured(cc)]_vars

\* the controller has just been enrolled with a jump asked at this very clock
\* reading: the request was pending when setDynamicsWorld was called and is gone
C35_Witness ==
    /\ pc = "idle"
    /\ lastCall = "setDynamicsWorld(world)"
    /\ cc.dynamicsWorld = WORLD
    /\ now > ClockStart
    /\ cc.jumpToHoverStart = now
    /\ PENDING_FLAG_JUMP \notin cc.pendingFlags

\* the ray of scanDown met a floor closer than 3 + halfHeight + radius
C36_CloseFloor(callback) ==
    /\ callback.hasHit
    /\ callback.closestHitFraction * (20000 + cc.halfHeight + cc.radius)
          < (3000 + cc.halfHeight + cc.radius) * FractionScale

\* C36: isHovering is cleared only by scanDown: a step that ends hovering is a
\* scanDown whose ray met a floor closer than 3 + halfHeight + radius, so jump,
\* setEnabled, setDynamicsWorld with its reset, preSimulation, stepUp,
\* stepForward, stepDown and postSimulation leave a hovering controller hovering;
\* a step-down hit that sets isOnGround leaves it hovering, and setEnabled(true)
\* on a disabled controller sets isHovering
C36_OnlyScanDownEndsHover ==
    /\ [][cc.isHovering /\ ~cc'.isHovering
            => ScanDown /\ C36_CloseFloor(frame'.callback)]_vars
    /\ [][(Jump \/ SetEnabled \/ SetDynamicsWorld \/ PreSimulation \/ PreStep
             \/ RecoverFromPenetration \/ PlayerStep \/ StepUp \/ StepForward
             \/ StepDown \/ PostSimulation) /\ cc.isHovering
            => cc'.isHovering]_vars
    /\ [](reset(cc).isHovering = cc.isHovering)
    /\ [][StepDown /\ cc.isHovering /\ cc'.isOnGround
            => cc'.isHovering /\ onGround(cc')]_vars
    /\ [][SetEnabled /\ ~cc.enabled /\ cc'.enabled => cc'.isHovering]_vars

\* stepDown has just landed a controller that was hovering and still is
C36_Witness ==
    /\ pc = "simulate"
    /\ frame.steps > 0
    /\ cc.enabled
    /\ cc.isHovering
    /\ cc.isOnGround

\* C37: in every reachable state a disabled controller is not on the ground:
\* onGround() and canJump() are false while enabled is false; a controller comes
\* to be on the ground only in a stepDown of an enabled controller, so the
\* setEnabled(true) that re-enables it leaves it off the ground and a jump
\* request consumed by the preSimulation after it is not honoured
C37_DisabledIsOffGround ==
    /\ [](~cc.enabled => ~onGround(cc) /\ ~canJump(cc))
    /\ [][~cc.enabled /\ cc'.enabled
            => SetEnabled /\ ~canJump(cc') /\ ~jumpHonoured(cc')]_vars
    /\ [][~canJump(cc) /\ canJump(cc') => StepDown /\ cc.enabled]_vars
    /\ [][PreSimulation /\ ~canJump(cc)
            => /\ (cc.enabled /\ cc.dynamicsWorld # NULL
                      => PENDING_FLAG_JUMP \notin cc'.pendingFlags)
               /\ cc'.isJumping = cc.isJumping
               /\ cc'.verticalVelocity = cc.verticalVelocity]_vars

\* preSimulation has just consumed, without a jump, a request made at the last
\* clock reading by a controller that was not hovering and that was re-enabled
\* (hence hovering) after it
C37_Witness ==
    /\ pc = "simulate"
    /\ lastCall = "preSimulation"
    /\ cc.enabled /\ cc.dynamicsWorld = WORLD
    /\ cc.jumpToHoverStart + frame.dt * 1000 = now
    /\ cc.isHovering
    /\ PENDING_FLAG_JUMP \notin cc.pendingFlags
    /\ ~cc.isJumping
    /\ ~cc.isOnGround
    /\ jumpBegan + frame.dt * 1000 # now
====
